---- MODULE Spec2Model ----
(***************************************************************************)
(* Model of the football betting prediction engine (src/v2): the           *)
(* multi-timeframe confidence engine, the risk adjustment, the pattern     *)
(* registry, the league selectors and the walk-forward backtests.          *)
(*                                                                         *)
(* Real numbers are fixed point: a probability or confidence p is the      *)
(* integer p * 10000 (so 0.55 is 5500), a per-match average (goals,        *)
(* corners) is the integer average * 100.  Dates are day numbers.          *)
(* A match record is a function from column names to values; a column      *)
(* that the row does not carry is absent from its domain, so that          *)
(* row['X'] (which raises) and row.get('X', 0) (which defaults) differ.    *)
(***************************************************************************)
EXTENDS Integers, Sequences, FiniteSets, TLC

VARIABLES
    data,       \* the loaded corpus (predictor.data / predictor.df), ascending by Date
    eng_in,     \* arguments of the last confidence-engine call
    eng_out,    \* its return value (NoValue before the call)
    registry,   \* _global_registry._patterns, in insertion order
    pred,       \* the constructed predictor or manager objects (their instance attributes)
    call,       \* arguments of the last predictor call
    ret,        \* its return value
    prev,       \* the call before the last one and its return value, or the object before the last call
    bt          \* the state of a running backtest

vars == <<data, eng_in, eng_out, registry, pred, call, ret, prev, bt>>

NoValue == [status |-> "none"]     \* Python None (results are records tagged by status)

(***************************************************************************)
(* Fixed point                                                             *)
(***************************************************************************)
ONE == 100 * 100             \* 1.0 as a confidence
Pct(p) == p * 100            \* p percent as a confidence

Max2(a, b) == IF a >= b THEN a ELSE b
Min2(a, b) == IF a <= b THEN a ELSE b
Clamp01(x) == Max2(0, Min2(ONE, x))
Abs(x) == IF x < 0 THEN 0 - x ELSE x

RECURSIVE SumSeq(_)
SumSeq(s) == IF s = <<>> THEN 0 ELSE Head(s) + SumSeq(Tail(s))

RECURSIVE SumFn(_, _)
\* sum of f[x] over x in S
SumFn(f, S) ==
    IF S = {} THEN 0
    ELSE LET x == CHOOSE y \in S : TRUE IN f[x] + SumFn(f, S \ {x})

RECURSIVE Replicate(_, _)
Replicate(r, n) == IF n <= 0 THEN <<>> ELSE <<r>> \o Replicate(r, n - 1)

TailN(s, n) == IF Len(s) <= n THEN s ELSE SubSeq(s, Len(s) - n + 1, Len(s))
HeadN(s, n) == IF Len(s) <= n THEN s ELSE SubSeq(s, 1, n)

(***************************************************************************)
(* Match records and pattern predicates                                    *)
(***************************************************************************)
Get(r, f) == IF f \in DOMAIN r THEN r[f] ELSE 0      \* row.get(f, 0)
Has(r, f) == f \in DOMAIN r

\* Columns a predicate reads with row['X'] (a KeyError when absent).
RequiredCols(name) ==
    CASE name \in {"home_over_0_5_goals", "home_over_1_5_goals"} -> {"FTHG"}
      [] name \in {"away_over_0_5_goals"} -> {"FTAG"}
      [] name \in {"total_over_1_5_goals", "total_over_2_5_goals",
                   "total_under_2_5_goals", "total_under_5_5_goals",
                   "both_teams_to_score"} -> {"FTHG", "FTAG"}
      [] name \in {"home_win", "draw"} -> {"FTR"}
      [] OTHER -> {}

Raises(name, r) == ~(RequiredCols(name) \subseteq DOMAIN r)

\* label_fn of the pattern registered under this name (x.5 lines compared exactly).
Label(name, r) ==
    CASE name = "home_over_0_5_goals"   -> 2 * r["FTHG"] > 1
      [] name = "home_over_1_5_goals"   -> 2 * r["FTHG"] > 3
      [] name = "away_over_0_5_goals"   -> 2 * r["FTAG"] > 1
      [] name = "total_over_1_5_goals"  -> 2 * (r["FTHG"] + r["FTAG"]) > 3
      [] name = "total_over_2_5_goals"  -> 2 * (r["FTHG"] + r["FTAG"]) > 5
      [] name = "total_under_2_5_goals" -> 2 * (r["FTHG"] + r["FTAG"]) < 5
      [] name = "total_under_5_5_goals" -> 2 * (r["FTHG"] + r["FTAG"]) < 11
      [] name = "both_teams_to_score"   -> r["FTHG"] > 0 /\ r["FTAG"] > 0
      [] name = "home_win"              -> r["FTR"] = "H"
      [] name = "draw"                  -> r["FTR"] = "D"
      [] name = "home_over_2_5_corners" -> 2 * Get(r, "HC") > 5
      [] name = "away_over_2_5_corners" -> 2 * Get(r, "AC") > 5
      [] name = "total_over_7_5_corners" -> 2 * (Get(r, "HC") + Get(r, "AC")) > 15
      [] name = "total_over_8_5_corners" -> 2 * (Get(r, "HC") + Get(r, "AC")) > 17
      [] name = "home_over_0_5_cards"   -> 2 * (Get(r, "HY") + Get(r, "HR")) > 1
      [] name = "away_over_0_5_cards"   -> 2 * (Get(r, "AY") + Get(r, "AR")) > 1
      [] name = "home_over_1_5_cards"   -> 2 * (Get(r, "HY") + Get(r, "HR")) > 3
      [] name = "home_over_4_corners"   -> Get(r, "HC") > 4
      [] name = "total_over_8_corners"  -> Get(r, "HC") + Get(r, "AC") > 8
      [] name = "home_over_1_cards"     -> Get(r, "HY") + Get(r, "HR") > 1
      [] OTHER -> FALSE

\* _calculate_result of the adapters: FTR from the goals.
ResultOf(hg, ag) == IF hg > ag THEN "H" ELSE IF ag > hg THEN "A" ELSE "D"

Rec(d, h, a, hg, ag, hc, ac, hy, ay) ==
    [Date |-> d, HomeTeam |-> h, AwayTeam |-> a, FTHG |-> hg, FTAG |-> ag,
     FTR |-> ResultOf(hg, ag), HC |-> hc, AC |-> ac, HY |-> hy, AY |-> ay]

DropCols(r, cols) == [k \in DOMAIN r \ cols |-> r[k]]

IsSortedByDate(s) == \A i \in 1..(Len(s) - 1) : s[i]["Date"] <= s[i + 1]["Date"]

(***************************************************************************)
(* utils/confidence.py: calculate_multi_timeframe_confidence               *)
(***************************************************************************)
ALL_HISTORY == 99999

DefaultTimeframes ==
    (7 :> Pct(30)) @@ (14 :> Pct(23)) @@ (30 :> Pct(18)) @@
    (90 :> Pct(14)) @@ (365 :> Pct(10)) @@ (730 :> Pct(5))

NoCustomTimeframes == <<>>      \* custom_timeframes=None (or an empty dict)

MinDate(d) == CHOOSE x \in {d[i]["Date"] : i \in 1..Len(d)} :
                 \A i \in 1..Len(d) : x <= d[i]["Date"]

\* lines 54-73: the {days: weight} table the call works with
EffectiveTimeframes(d, match_date, custom_timeframes, use_all_history) ==
    IF DOMAIN custom_timeframes # {}
    THEN custom_timeframes
    ELSE IF use_all_history /\ Len(d) > 0 /\ match_date - MinDate(d) > 730
         THEN DefaultTimeframes @@ (ALL_HISTORY :> 0)
         ELSE DefaultTimeframes

\* lines 80-85: the rows of one timeframe
TfData(d, match_date, days) ==
    IF days = ALL_HISTORY
    THEN SelectSeq(d, LAMBDA r : r["Date"] < match_date)
    ELSE SelectSeq(d, LAMBDA r : r["Date"] >= match_date - days /\ r["Date"] < match_date)

Hits(tf, name) == Cardinality({i \in 1..Len(tf) : Label(name, tf[i])})

\* tf_data.apply(pattern_fn, axis=1) raises when the predicate raises on a row
ApplyRaises(tf, name) == \E i \in 1..Len(tf) : Raises(name, tf[i])

\* lines 76-96: timeframe_results, for the timeframes that have rows
TimeframeResults(d, match_date, name, timeframes) ==
    [days \in {x \in DOMAIN timeframes : Len(TfData(d, match_date, x)) > 0} |->
        LET tf == TfData(d, match_date, days)
        IN  [matches |-> Len(tf),
             success |-> (Hits(tf, name) * ONE) \div Len(tf),
             weight  |-> timeframes[days]]]

\* the weighted sum not divided by the weights used
EnsembleConfidenceUnnormalised(results) ==
    LET used == {x \in DOMAIN results : results[x].weight > 0}
    IN  SumFn([x \in used |-> results[x].success * results[x].weight], used) \div ONE
\* lines 102-111
EnsembleConfidence(results) ==
    LET used == {x \in DOMAIN results : results[x].weight > 0}
        wsum == SumFn([x \in used |-> results[x].success * results[x].weight], used)
        total_weight == SumFn([x \in used |-> results[x].weight], used)
    IN  IF total_weight > 0 THEN wsum \div total_weight ELSE ONE \div 2

SuccessOr(results, days, dflt) ==
    IF days \in DOMAIN results THEN results[days].success ELSE dflt
MatchesOr0(results, days) ==
    IF days \in DOMAIN results THEN results[days].matches ELSE 0

\* the 7-day against 30-day comparison alone, without the longer trend
TrendOfShortOnly(results, ensemble) ==
    LET trend_7_vs_30 == SuccessOr(results, 7, ensemble) - SuccessOr(results, 30, ensemble)
    IN  IF trend_7_vs_30 > Pct(3)
        THEN [trend |-> "strong_uptrend", adjustment |-> Pct(2)]
        ELSE IF trend_7_vs_30 < 0 - Pct(3)
        THEN [trend |-> "downtrend", adjustment |-> 0 - Pct(2)]
        ELSE [trend |-> "stable", adjustment |-> 0]
\* lines 113-132
TrendOf(results, ensemble) ==
    LET recent_7  == SuccessOr(results, 7, ensemble)
        recent_30 == SuccessOr(results, 30, ensemble)
        season    == SuccessOr(results, 365, ensemble)
        trend_7_vs_30 == recent_7 - recent_30
        trend_30_vs_season == recent_30 - season
    IN  IF trend_7_vs_30 > Pct(3) /\ trend_30_vs_season >= 0 - Pct(2)
        THEN [trend |-> "strong_uptrend", adjustment |-> Pct(2)]
        ELSE IF trend_7_vs_30 < 0 - Pct(3) /\ trend_30_vs_season <= Pct(2)
        THEN [trend |-> "downtrend", adjustment |-> 0 - Pct(2)]
        ELSE [trend |-> "stable", adjustment |-> 0]

\* k^2 * variance of the success rates of the weighted timeframes
\* (population variance: k*sum(x^2) - (sum x)^2 = sum over pairs of (xi-xj)^2)
RECURSIVE PairSq(_, _)
PairSq(f, S) ==
    IF S = {} THEN 0
    ELSE LET x == CHOOSE y \in S : TRUE
             rest == S \ {x}
         IN  SumFn([y \in rest |-> (f[x] - f[y]) * (f[x] - f[y])], rest) + PairSq(f, rest)

\* the deviation taken over every window with matches, the zero-weight one too
ConsistencyOfAllWindows(results) ==
    LET used == DOMAIN results
        k == Cardinality(used)
        k2var == IF k > 1 THEN PairSq([x \in used |-> results[x].success], used) ELSE 0
    IN  IF k <= 1 \/ k2var < Pct(3) * Pct(3) * k * k
        THEN [consistency |-> "high", adjustment |-> Pct(1)]
        ELSE IF k2var < Pct(5) * Pct(5) * k * k
        THEN [consistency |-> "moderate", adjustment |-> 0]
        ELSE [consistency |-> "low", adjustment |-> 0 - Pct(2)]
\* lines 134-145: np.std(confidences) against 0.03 and 0.05, std 0 for fewer
\* than two rates
ConsistencyOf(results) ==
    LET used == {x \in DOMAIN results : results[x].weight > 0}
        k == Cardinality(used)
        k2var == IF k > 1 THEN PairSq([x \in used |-> results[x].success], used) ELSE 0
    IN  IF k <= 1 \/ k2var < Pct(3) * Pct(3) * k * k
        THEN [consistency |-> "high", adjustment |-> Pct(1)]
        ELSE IF k2var < Pct(5) * Pct(5) * k * k
        THEN [consistency |-> "moderate", adjustment |-> 0]
        ELSE [consistency |-> "low", adjustment |-> 0 - Pct(2)]

\* lines 147-159
SampleOf(results, min_matches_7d, min_matches_30d) ==
    LET matches_7d == MatchesOr0(results, 7)
        matches_30d == MatchesOr0(results, 30)
    IN  IF matches_7d >= min_matches_7d /\ matches_30d >= min_matches_30d
        THEN [quality |-> "sufficient", adjustment |-> 0]
        ELSE IF matches_7d >= Max2(2, min_matches_7d - 1)
                /\ matches_30d >= Max2(8, min_matches_30d - 2)
        THEN [quality |-> "adequate", adjustment |-> 0 - Pct(2)]
        ELSE [quality |-> "insufficient", adjustment |-> 0 - Pct(5)]

FinalClampMissing(x) == x
\* line 165
FinalClamp(x) == Max2(0, Min2(ONE, x))

\* a no-data return with confidence 0
NoDataReturnZero == [status |-> "ok", final_confidence |-> 0, error |-> TRUE]
\* lines 98-100: return 0.5, {'error': 'No historical data available'}
NoDataReturn == [status |-> "ok", final_confidence |-> ONE \div 2, error |-> TRUE]

\* The whole call.  status "raise" is an exception leaving the function.
CalculateMultiTimeframeConfidence(d, match_date, name, min_matches_7d, min_matches_30d, custom_timeframes, use_all_history) ==
    LET timeframes == EffectiveTimeframes(d, match_date, custom_timeframes, use_all_history)
        raised == \E days \in DOMAIN timeframes : ApplyRaises(TfData(d, match_date, days), name)
    IN  IF raised THEN [status |-> "raise"]
        ELSE
        LET results == TimeframeResults(d, match_date, name, timeframes)
        IN  IF DOMAIN results = {}
            THEN NoDataReturn
            ELSE
            LET ensemble == EnsembleConfidence(results)
                tr == TrendOf(results, ensemble)
                co == ConsistencyOf(results)
                sa == SampleOf(results, min_matches_7d, min_matches_30d)
            IN  [status |-> "ok",
                 final_confidence |-> FinalClamp(ensemble + tr.adjustment
                                                  + co.adjustment + sa.adjustment),
                 error |-> FALSE,
                 ensemble_confidence |-> ensemble,
                 timeframe_results |-> results,
                 trend |-> tr.trend, trend_adjustment |-> tr.adjustment,
                 consistency |-> co.consistency, consistency_adjustment |-> co.adjustment,
                 sample_quality |-> sa.quality, sample_adjustment |-> sa.adjustment]

(***************************************************************************)
(* Corpora the engine is exercised on: blocks of identical rows on a few   *)
(* days around the as-of date                                              *)
(***************************************************************************)
MaxBlock == 3                \* largest block multiplier
AsOfDate == 1000

HighRow(d) == Rec(d, "Liverpool", "Arsenal", 3, 1, 7, 2, 1, 2)
LowRow(d)  == Rec(d, "Arsenal", "Chelsea", 0, 0, 2, 1, 0, 0)
MidRow(d)  == Rec(d, "Chelsea", "Liverpool", 1, 1, 2, 5, 2, 1)

RowKinds == {"high", "low", "mid"}
EngineRowKinds == {"high", "low"}
RowOf(kind, d) ==
    CASE kind = "high" -> HighRow(d) [] kind = "low" -> LowRow(d) [] OTHER -> MidRow(d)

\* a block choice: no rows, or n rows of one kind
BlockChoices == {[kind |-> "high", n |-> 0]} \cup
                [kind : EngineRowKinds, n : {1, 3 * MaxBlock}]
BlockRows(c, d) == Replicate(RowOf(c.kind, d), c.n)

EngineSlotDates == <<200, 800, 985, 996, 1000>>

EngineCorpus(choice) ==
    BlockRows(choice[1], EngineSlotDates[1]) \o BlockRows(choice[2], EngineSlotDates[2]) \o
    BlockRows(choice[3], EngineSlotDates[3]) \o BlockRows(choice[4], EngineSlotDates[4]) \o
    BlockRows(choice[5], EngineSlotDates[5])

EnginePatterns == {"total_over_2_5_goals", "home_over_2_5_corners", "total_under_2_5_goals"}

RomanianWeights ==
    (7 :> Pct(15)) @@ (14 :> Pct(15)) @@ (30 :> Pct(20)) @@ (90 :> Pct(25)) @@ (365 :> Pct(25))

EngineConfigs ==
    { [min7 |-> 2, min30 |-> 8, custom |-> RomanianWeights],
      [min7 |-> 3, min30 |-> 10, custom |-> NoCustomTimeframes] }

InitEngine ==
    /\ \E choice \in [1..5 -> BlockChoices] : data = EngineCorpus(choice)
    /\ \E p \in EnginePatterns, c \in EngineConfigs :
          eng_in = [pattern |-> p, match_date |-> AsOfDate, config |-> c]
    /\ eng_out = NoValue
    /\ registry = <<>> /\ pred = NoValue /\ call = NoValue
    /\ ret = NoValue /\ prev = NoValue /\ bt = NoValue

EngineCall ==
    /\ eng_out = NoValue
    /\ eng_out' = CalculateMultiTimeframeConfidence(data, eng_in.match_date, eng_in.pattern,
                      eng_in.config.min7, eng_in.config.min30, eng_in.config.custom, TRUE)
    /\ UNCHANGED <<data, eng_in, registry, pred, call, ret, prev, bt>>

NextEngine == EngineCall

SpecEngine == InitEngine /\ [][NextEngine]_vars

(***************************************************************************)
(* C3: for all inputs the final_confidence the engine returns lies in      *)
(* [0, 1], also when the trend, consistency and sample adjustments all     *)
(* push in the same direction.                                             *)
(***************************************************************************)
C3_FinalConfidenceInUnitInterval ==
    (eng_out.status = "ok")
        => (eng_out.final_confidence >= 0 /\ eng_out.final_confidence <= ONE)

\* the adjustments stack downwards below an ensemble of 0 and the clamp acts
C3_Witness ==
    /\ eng_out.status = "ok" /\ ~eng_out.error
    /\ eng_out.ensemble_confidence + eng_out.trend_adjustment
         + eng_out.consistency_adjustment + eng_out.sample_adjustment < 0
    /\ eng_out.final_confidence = 0

(***************************************************************************)
(* patterns/risk_adjustment.py                                             *)
(***************************************************************************)
PATTERN_RISK_PENALTIES ==
    [over_3_5_goals |-> Pct(10), total_over_3_5_goals |-> Pct(10),
     over_2_5_goals |-> Pct(6), total_over_2_5_goals |-> Pct(6),
     under_2_5_goals |-> Pct(5), total_under_2_5_goals |-> Pct(5),
     over_1_5_goals |-> Pct(4), total_over_1_5_goals |-> Pct(4),
     under_1_5_goals |-> Pct(5), over_0_5_goals |-> Pct(2),
     total_over_0_5_goals |-> Pct(2), home_over_2_5_goals |-> Pct(7),
     home_over_1_5_goals |-> Pct(5), home_over_0_5_goals |-> Pct(2),
     home_under_1_5_goals |-> Pct(6), away_over_2_5_goals |-> Pct(8),
     away_over_1_5_goals |-> Pct(6), away_over_0_5_goals |-> Pct(3),
     away_under_1_5_goals |-> Pct(5), over_11_5_corners |-> Pct(4),
     over_10_5_corners |-> Pct(4), total_over_10_5_corners |-> Pct(4),
     over_9_5_corners |-> Pct(3), total_over_9_5_corners |-> Pct(3),
     over_8_5_corners |-> Pct(3), total_over_8_5_corners |-> Pct(3),
     over_7_5_corners |-> Pct(2), total_over_7_5_corners |-> Pct(2),
     total_under_7_5_corners |-> Pct(3), over_2_5_corners |-> Pct(2),
     over_0_5_corners |-> Pct(1), home_over_5_5_corners |-> Pct(4),
     home_over_4_5_corners |-> Pct(3), home_over_3_5_corners |-> Pct(3),
     home_over_2_5_corners |-> Pct(2), home_over_1_5_corners |-> Pct(2),
     home_over_0_5_corners |-> Pct(1), away_over_5_5_corners |-> Pct(5),
     away_over_4_5_corners |-> Pct(4), away_over_3_5_corners |-> Pct(3),
     away_over_2_5_corners |-> Pct(2), away_over_1_5_corners |-> Pct(2),
     away_over_0_5_corners |-> Pct(1), over_5_5_cards |-> Pct(6),
     total_over_5_5_cards |-> Pct(6), over_4_5_cards |-> Pct(5),
     total_over_4_5_cards |-> Pct(5), over_3_5_cards |-> Pct(4),
     total_over_3_5_cards |-> Pct(4), over_2_5_cards |-> Pct(4),
     total_over_2_5_cards |-> Pct(4), over_1_5_cards |-> Pct(3),
     over_0_5_cards |-> Pct(2), total_over_0_5_cards |-> Pct(2),
     home_over_2_5_cards |-> Pct(5), home_over_1_5_cards |-> Pct(4),
     home_over_0_5_cards |-> Pct(2), away_over_2_5_cards |-> Pct(5),
     away_over_1_5_cards |-> Pct(4), away_over_0_5_cards |-> Pct(2),
     over_20_5_shots |-> Pct(5), over_15_5_shots |-> Pct(4),
     over_10_5_shots |-> Pct(3), home_over_10_5_shots |-> Pct(4),
     home_over_5_5_shots |-> Pct(3), away_over_10_5_shots |-> Pct(5),
     away_over_5_5_shots |-> Pct(4), home_win |-> Pct(8),
     away_win |-> Pct(9), draw |-> Pct(10)]

DEFAULT_RISK_PENALTY == Pct(5)

\* one penalty for every name
FlatRiskPenalty(pattern_name) == DEFAULT_RISK_PENALTY
get_pattern_risk_penalty(pattern_name) ==
    IF pattern_name \in DOMAIN PATTERN_RISK_PENALTIES
    THEN PATTERN_RISK_PENALTIES[pattern_name]
    ELSE DEFAULT_RISK_PENALTY

\* the difference without the clamp of line 138
RiskAdjustedUnclamped(confidence, pattern_name) ==
    confidence - get_pattern_risk_penalty(pattern_name)
calculate_risk_adjusted_confidence(confidence, pattern_name) ==
    Max2(0, Min2(ONE, confidence - get_pattern_risk_penalty(pattern_name)))

(***************************************************************************)
(* patterns/registry.py: the process-wide registry.  An entry keeps the    *)
(* pattern's name and default threshold; its label function is Label(name).*)
(***************************************************************************)
Pat(name, default_threshold) == [name |-> name, threshold |-> default_threshold]

RECURSIVE NamesOf(_)
NamesOf(reg) == IF reg = <<>> THEN <<>> ELSE <<Head(reg).name>> \o NamesOf(Tail(reg))

list_patterns(reg) == NamesOf(reg)

NameSet(reg) == {reg[i].name : i \in 1..Len(reg)}

\* a register that accepts every name
RegisterNeverRaises(reg, p) == FALSE
\* PatternRegistry.register: ValueError when the name is already there
RegisterRaises(reg, p) == p.name \in NameSet(reg)
Register(reg, p) == IF RegisterRaises(reg, p) THEN reg ELSE Append(reg, p)

RECURSIVE RegisterAll(_, _)
RegisterAll(reg, ps) ==
    IF ps = <<>> THEN reg ELSE RegisterAll(Register(reg, Head(ps)), Tail(ps))

clear_patterns == <<>>

\* registry.py 174-218: the example patterns registered when the module is imported
ExamplePatterns ==
    << Pat("home_over_1_5_goals", Pct(65)), Pat("total_over_2_5_goals", Pct(65)),
       Pat("home_over_4_corners", Pct(60)), Pat("total_over_8_corners", Pct(60)),
       Pat("home_over_1_cards", Pct(70)) >>

\* register_romanian_patterns (the registrations the model keeps, in source order)
RomanianPatterns ==
    << Pat("home_over_0_5_goals", Pct(70)), Pat("total_over_2_5_goals", Pct(65)),
       Pat("home_over_2_5_corners", Pct(65)), Pat("total_over_7_5_corners", Pct(68)),
       Pat("away_over_0_5_cards", Pct(60)) >>

\* register_serie_a_patterns
SerieAPatterns ==
    << Pat("home_over_0_5_goals", Pct(65)), Pat("total_under_2_5_goals", Pct(55)),
       Pat("home_win", Pct(65)), Pat("away_over_2_5_corners", Pct(63)),
       Pat("away_over_0_5_cards", Pct(55)) >>

\* register_la_liga_patterns
LaLigaPatterns ==
    << Pat("home_over_0_5_goals", Pct(65)), Pat("total_over_1_5_goals", Pct(60)),
       Pat("home_over_2_5_corners", Pct(55)), Pat("total_over_7_5_corners", Pct(60)),
       Pat("away_over_0_5_cards", Pct(60)), Pat("total_under_5_5_goals", Pct(65)) >>

\* register_premier_league_patterns: the names the predictor and the penalty
\* table refer to, at register_pattern's default threshold
PremierLeaguePatterns ==
    << Pat("home_over_0_5_goals", Pct(65)), Pat("both_teams_to_score", Pct(65)),
       Pat("total_over_2_5_goals", Pct(65)), Pat("home_over_2_5_corners", Pct(65)),
       Pat("total_over_8_5_corners", Pct(65)), Pat("away_over_0_5_cards", Pct(65)) >>

\* substrings of a pattern name that the predictors test with `in`
Tags(name) ==
    CASE name = "home_over_0_5_goals"    -> {"home", "over", "goal", "over_0_5_goals"}
      [] name = "home_over_1_5_goals"    -> {"home", "over", "goal", "over_1_5_goals"}
      [] name = "total_over_1_5_goals"   -> {"over", "goal", "over_1_5_goals"}
      [] name = "total_over_2_5_goals"   -> {"over", "goal", "over_2_5_goals"}
      [] name = "total_under_2_5_goals"  -> {"under", "goal", "under_2_5_goals"}
      [] name = "total_under_5_5_goals"  -> {"under", "goal"}
      [] name = "both_teams_to_score"    -> {"both_teams_to_score"}
      [] name = "home_win"               -> {"home"}
      [] name = "home_over_2_5_corners"  -> {"home", "over", "corner", "over_2_5_corners"}
      [] name = "away_over_2_5_corners"  -> {"away", "over", "corner", "over_2_5_corners"}
      [] name = "total_over_7_5_corners" -> {"over", "corner", "over_7_5", "over_7_5_corners"}
      [] name = "total_over_8_5_corners" -> {"over", "corner", "over_8_5", "over_8_5_corners"}
      [] name = "away_over_0_5_cards"    -> {"away", "over", "card", "over_0_5_cards"}
      [] name = "home_over_4_corners"    -> {"home", "over", "corner"}
      [] name = "total_over_8_corners"   -> {"over", "corner"}
      [] name = "home_over_1_cards"      -> {"home", "over", "card"}
      [] OTHER -> {}

In(sub, name) == sub \in Tags(name)

(***************************************************************************)
(* What a selector call produces.  status is "bet" (a BestBet, a           *)
(* recommendation object or a dict), "no_bet" (None), "list" (an empty     *)
(* list), "raise" (an exception leaves the call) or "none" (no call yet).  *)
(* evals lists the pattern evaluations the call went through, in order:    *)
(* the values its loop variables took.                                     *)
(***************************************************************************)
Eval(name, status, confidence, threshold) ==
    [name |-> name, status |-> status, confidence |-> confidence,
     risk_adjusted_confidence |-> calculate_risk_adjusted_confidence(confidence, name),
     threshold |-> threshold]

Skipped(name) == Eval(name, "skip", 0, 0)
Raised(name) == Eval(name, "raise", 0, 0)

Result(status, pattern_name, confidence, risk_adjusted, threshold, evals) ==
    [status |-> status, pattern_name |-> pattern_name, confidence |-> confidence,
     risk_adjusted_confidence |-> risk_adjusted, threshold |-> threshold, evals |-> evals]

NoResult == Result("none", "", 0, 0, 0, <<>>)
NoBet(evals) == Result("no_bet", "", 0, 0, 0, evals)
EmptyList == Result("list", "", 0, 0, 0, <<>>)
Exception(evals) == Result("raise", "", 0, 0, 0, evals)
BestBet(e, threshold, evals) ==
    Result("bet", e.name, e.confidence, e.risk_adjusted_confidence, threshold, evals)

\* the evaluations up to and including the first one that raises
RECURSIVE UntilRaise(_)
UntilRaise(evs) ==
    IF evs = <<>> THEN <<>>
    ELSE IF Head(evs).status = "raise" THEN <<Head(evs)>>
    ELSE <<Head(evs)>> \o UntilRaise(Tail(evs))

AnyRaise(evs) == \E i \in 1..Len(evs) : evs[i].status = "raise"

\* the loop with "risk_adjusted >= best_risk_adjusted": the last maximum is kept
RECURSIVE BestSoFarLastMax(_, _, _)
BestSoFarLastMax(evs, i, best) ==
    IF i > Len(evs) THEN best
    ELSE LET e == evs[i]
             best_risk_adjusted == IF best = 0 THEN 0 ELSE evs[best].risk_adjusted_confidence
         IN  IF e.status = "ok" /\ e.risk_adjusted_confidence >= e.threshold
                /\ e.risk_adjusted_confidence >= best_risk_adjusted
             THEN BestSoFarLastMax(evs, i + 1, i)
             ELSE BestSoFarLastMax(evs, i + 1, best)

\* the loop "if risk_adjusted >= threshold and risk_adjusted > best_risk_adjusted"
\* with best_risk_adjusted starting at 0.0: index of the kept evaluation, or 0
RECURSIVE BestSoFar(_, _, _)
BestSoFar(evs, i, best) ==
    IF i > Len(evs) THEN best
    ELSE LET e == evs[i]
             best_risk_adjusted == IF best = 0 THEN 0 ELSE evs[best].risk_adjusted_confidence
         IN  IF e.status = "ok" /\ e.risk_adjusted_confidence >= e.threshold
                /\ e.risk_adjusted_confidence > best_risk_adjusted
             THEN BestSoFar(evs, i + 1, i)
             ELSE BestSoFar(evs, i + 1, best)

\* max(candidates, key=risk_adjusted_confidence): the first maximal element
FirstMax(evs, cands) ==
    CHOOSE i \in cands :
        /\ \A j \in cands : evs[j].risk_adjusted_confidence <= evs[i].risk_adjusted_confidence
        /\ \A j \in cands : j < i =>
              evs[j].risk_adjusted_confidence < evs[i].risk_adjusted_confidence

(***************************************************************************)
(* simple_romanian_predictor.py                                            *)
(***************************************************************************)
RomanianThresholds ==
    [home_over_0_5_goals |-> Pct(55), away_over_0_5_goals |-> Pct(55),
     home_over_0_5_cards |-> Pct(55), away_over_0_5_cards |-> Pct(55),
     home_over_1_5_goals |-> Pct(65), away_over_1_5_goals |-> Pct(65),
     total_over_1_5_goals |-> Pct(58), total_over_2_5_goals |-> Pct(62),
     total_under_2_5_goals |-> Pct(70), both_teams_to_score |-> Pct(60),
     home_over_2_5_corners |-> Pct(65), away_over_2_5_corners |-> Pct(65),
     total_over_8_5_corners |-> Pct(60), home_over_1_5_cards |-> Pct(65),
     away_over_1_5_cards |-> Pct(65)]

\* one pass of the loop body, lines 100-127
RomanianEval(name, historical_data, match_date, use_ensemble) ==
    IF name \notin DOMAIN RomanianThresholds THEN Skipped(name)
    ELSE IF use_ensemble
    THEN LET e == CalculateMultiTimeframeConfidence(historical_data, match_date, name,
                                                    2, 8, RomanianWeights, TRUE)
         IN  IF e.status = "raise" THEN Raised(name)
             ELSE Eval(name, "ok", e.final_confidence, RomanianThresholds[name])
    ELSE LET recent_data == TailN(historical_data, 30)
         IN  IF Len(recent_data) < 10 THEN Skipped(name)
             ELSE IF ApplyRaises(recent_data, name) THEN Raised(name)
             ELSE Eval(name, "ok", (Hits(recent_data, name) * ONE) \div Len(recent_data),
                       RomanianThresholds[name])

\* SimpleRomanianPredictor.predict_match, over the registry it refers to
RomanianPredictMatch(reg, historical_data, match_date, use_ensemble) ==
    LET names == list_patterns(reg)
        all == [i \in 1..Len(names) |->
                   RomanianEval(names[i], historical_data, match_date, use_ensemble)]
        evs == UntilRaise(all)
        best == BestSoFar(evs, 1, 0)
    IN  IF AnyRaise(evs) THEN Exception(evs)
        ELSE IF best = 0 THEN NoBet(evs)
        ELSE BestBet(evs[best], RomanianThresholds[evs[best].name], evs)

(***************************************************************************)
(* simple_serie_a_predictor.py                                             *)
(***************************************************************************)
SerieAWeights ==
    (7 :> Pct(15)) @@ (14 :> Pct(15)) @@ (30 :> Pct(20)) @@ (90 :> Pct(25)) @@ (365 :> Pct(25))

SerieAThresholds ==
    [home_over_0_5_cards |-> Pct(55), away_over_0_5_cards |-> Pct(55),
     home_over_1_5_cards |-> Pct(60), away_over_1_5_cards |-> Pct(60),
     home_over_0_5_goals |-> Pct(60), away_over_0_5_goals |-> Pct(58),
     home_over_1_5_goals |-> Pct(65), total_over_1_5_goals |-> Pct(58),
     total_over_2_5_goals |-> Pct(65), total_under_2_5_goals |-> Pct(55),
     both_teams_to_score |-> Pct(62), away_over_2_5_corners |-> Pct(60),
     total_over_8_5_corners |-> Pct(58), home_win |-> Pct(62), draw |-> Pct(68)]

SerieAEval(name, self_data, match_date, use_ensemble) ==
    IF name \notin DOMAIN SerieAThresholds THEN Skipped(name)
    ELSE IF use_ensemble
    THEN LET e == CalculateMultiTimeframeConfidence(self_data, match_date, name,
                                                    3, 10, SerieAWeights, TRUE)
         IN  IF e.status = "raise" THEN Raised(name)
             ELSE Eval(name, "ok", e.final_confidence, SerieAThresholds[name])
    ELSE LET recent_data == TfData(self_data, match_date, 30)
         IN  IF Len(recent_data) < 10 THEN Skipped(name)
             ELSE IF ApplyRaises(recent_data, name) THEN Raised(name)
             ELSE Eval(name, "ok", (Hits(recent_data, name) * ONE) \div Len(recent_data),
                       SerieAThresholds[name])

\* SimpleSerieAPredictor.predict_match
SerieAPredictMatch(reg, self_data, match_date, use_ensemble) ==
    LET names == list_patterns(reg)
        all == [i \in 1..Len(names) |->
                   SerieAEval(names[i], self_data, match_date, use_ensemble)]
        evs == UntilRaise(all)
        best == BestSoFar(evs, 1, 0)
    IN  IF AnyRaise(evs) THEN Exception(evs)
        ELSE IF best = 0 THEN NoBet(evs)
        ELSE BestBet(evs[best], SerieAThresholds[evs[best].name], evs)

(***************************************************************************)
(* simple_premier_league_predictor.py                                      *)
(***************************************************************************)
PremierLeagueWeights ==
    (7 :> Pct(40)) @@ (14 :> Pct(30)) @@ (30 :> Pct(15)) @@ (90 :> Pct(10)) @@ (365 :> Pct(5))

lookback_days == 30

\* __init__ lines 57-64: FTR is computed when the loaded frame has no FTR column
WithFTR(d) ==
    [i \in 1..Len(d) |->
        IF Has(d[i], "FTR") \/ ~Has(d[i], "FTHG") \/ ~Has(d[i], "FTAG") THEN d[i]
        ELSE d[i] @@ [FTR |-> ResultOf(d[i]["FTHG"], d[i]["FTAG"])]]

\* __init__ lines 73-82: the predictor's own copy of the registered patterns
FilteredPatterns(reg) ==
    SelectSeq(reg, LAMBDA p : p.name \notin {"both_teams_to_score", "away_over_1_5_goals",
                                            "total_over_3_5_goals"})

HomeMatches(d, team) == SelectSeq(d, LAMBDA r : r["HomeTeam"] = team)
AwayMatches(d, team) == SelectSeq(d, LAMBDA r : r["AwayTeam"] = team)

RECURSIVE Column(_, _)
Column(d, col) == IF d = <<>> THEN <<>> ELSE <<Head(d)[col]>> \o Column(Tail(d), col)

RECURSIVE SumSq(_)
SumSq(s) == IF s = <<>> THEN 0 ELSE Head(s) * Head(s) + SumSq(Tail(s))

\* get_team_corner_style: avg = avg_num/n, recent average = recent_num/recent_n,
\* std^2 = var_num/(n*n); with no matches avg 5.0, std 2.0, trend 0; with one
\* match std 2.0 (and trend 0 since the recent average is the average)
PLCornerStyle(team, is_home, lookback_df) ==
    LET corners == IF is_home THEN Column(HomeMatches(lookback_df, team), "HC")
                   ELSE Column(AwayMatches(lookback_df, team), "AC")
        n == Len(corners)
        recent_corners == TailN(corners, 3)
    IN  IF n = 0
        THEN [n |-> 0, avg_num |-> 5, avg_den |-> 1, recent_num |-> 5, recent_n |-> 1, var_num |-> 4]
        ELSE [n |-> n, avg_num |-> SumSeq(corners), avg_den |-> n,
              recent_num |-> SumSeq(recent_corners), recent_n |-> Len(recent_corners),
              var_num |-> IF n > 1 THEN n * SumSq(corners) - SumSeq(corners) * SumSeq(corners)
                          ELSE 4]

\* style['recent_trend'] > p/q, where trend = (recent_avg - avg) / (std + 0.1):
\* std < (q/p)(recent_avg - avg) - 0.1, both sides squared once the right one is positive
TrendAbove(style, p, q) ==
    LET xn == 10 * q * (style.recent_num * style.avg_den - style.avg_num * style.recent_n)
                - p * style.recent_n * style.avg_den
    IN  /\ style.n > 1
        /\ xn > 0
        /\ xn * xn > 100 * p * p * style.recent_n * style.recent_n * style.var_num

\* home avg + away avg compared with a bound given in halves (11.5 = 23/2)
AvgSumTwice(hs, as) == 2 * (hs.avg_num * as.avg_den + as.avg_num * hs.avg_den)
AvgSumDen(hs, as) == hs.avg_den * as.avg_den

high_corner_teams == {"Tottenham Hotspur", "Newcastle United", "Brentford",
                      "AFC Bournemouth", "Nottingham Forest", "Liverpool"}
low_corner_teams == {"West Ham United", "Fulham", "Wolverhampton Wanderers",
                     "Leicester City", "Arsenal", "Brighton & Hove Albion"}
high_card_teams == {"Chelsea", "AFC Bournemouth", "Ipswich Town", "Southampton",
                    "Nottingham Forest", "Manchester United"}

PLCardBoost(pattern_name, home_team, away_team) ==
    IF In("card", pattern_name) /\ In("over", pattern_name)
    THEN IF home_team \in high_card_teams /\ away_team \in high_card_teams THEN Pct(2)
         ELSE IF home_team \in high_card_teams \/ away_team \in high_card_teams THEN Pct(1)
         ELSE 0
    ELSE 0

\* get_team_specialty_boost
PLSpecialtyBoost(pattern_name, home_team, away_team) ==
    LET both_high == home_team \in high_corner_teams /\ away_team \in high_corner_teams
        both_low == home_team \in low_corner_teams /\ away_team \in low_corner_teams
        one_high == home_team \in high_corner_teams \/ away_team \in high_corner_teams
    IN  IF In("corner", pattern_name) /\ In("over", pattern_name) /\ both_high THEN Pct(3)
        ELSE IF In("corner", pattern_name) /\ In("over", pattern_name) /\ one_high /\ ~both_low
        THEN Pct(2)
        ELSE IF In("corner", pattern_name) /\ In("over", pattern_name) /\ both_low THEN 0 - Pct(3)
        ELSE IF In("corner", pattern_name) /\ ~In("over", pattern_name)
                /\ In("under", pattern_name) /\ both_low THEN Pct(3)
        ELSE IF In("corner", pattern_name) /\ ~In("over", pattern_name)
                /\ In("under", pattern_name) /\ both_high THEN 0 - Pct(3)
        ELSE PLCardBoost(pattern_name, home_team, away_team)

\* get_ensemble_confidence_boost reads lookback_df['FTHG'] / ['FTAG'] for goal patterns
PLBoostRaises(pattern_name, lookback_df) ==
    /\ In("goal", pattern_name) /\ In("over", pattern_name)
    /\ \E i \in 1..Len(lookback_df) : ~Has(lookback_df[i], "FTHG") \/ ~Has(lookback_df[i], "FTAG")

PLEnsembleBoost(pattern_name, home_team, away_team, lookback_df) ==
    LET home_style == PLCornerStyle(home_team, TRUE, lookback_df)
        away_style == PLCornerStyle(away_team, FALSE, lookback_df)
        home_goals == Column(HomeMatches(lookback_df, home_team), "FTHG")
        away_goals == Column(AwayMatches(lookback_df, away_team), "FTAG")
    IN  IF In("corner", pattern_name) /\ TrendAbove(home_style, 1, 2) /\ TrendAbove(away_style, 1, 2)
        THEN Pct(3)
        ELSE IF In("corner", pattern_name)
                /\ (TrendAbove(home_style, 1, 1) \/ TrendAbove(away_style, 1, 1))
        THEN Pct(2)
        ELSE IF In("goal", pattern_name) /\ In("over", pattern_name)
                /\ Len(home_goals) > 0 /\ Len(away_goals) > 0
                /\ 2 * SumSeq(home_goals) > 3 * Len(home_goals)
                /\ SumSeq(away_goals) > Len(away_goals)
        THEN Pct(2)
        ELSE 0

apply_confidence_calibration(raw_confidence) ==
    IF raw_confidence >= Pct(90) THEN (raw_confidence * 92) \div 100
    ELSE IF raw_confidence >= Pct(85) THEN (raw_confidence * 90) \div 100
    ELSE IF raw_confidence >= Pct(75) THEN (raw_confidence * 98) \div 100
    ELSE IF raw_confidence <= Pct(65) THEN Min2(Pct(75), (raw_confidence * 105) \div 100)
    ELSE raw_confidence

\* lines 322-334: the threshold the pattern is tested against
PLAdjustedThreshold(pattern_name, base_threshold, hs, as) ==
    IF In("corner", pattern_name)
    THEN base_threshold
         + (IF AvgSumTwice(hs, as) > 23 * AvgSumDen(hs, as) THEN 0 - Pct(3)
            ELSE IF AvgSumTwice(hs, as) < 18 * AvgSumDen(hs, as) THEN Pct(3) ELSE 0)
         + (IF TrendAbove(hs, 1, 2) /\ TrendAbove(as, 1, 2) THEN 0 - Pct(2) ELSE 0)
    ELSE base_threshold

\* one pass of the loop body, lines 306-362
PLEval(p, df, lookback_df, home_team, away_team, match_date) ==
    LET e == CalculateMultiTimeframeConfidence(df, match_date, p.name, 2, 8,
                                               PremierLeagueWeights, TRUE)
        hs == PLCornerStyle(home_team, TRUE, lookback_df)
        as == PLCornerStyle(away_team, FALSE, lookback_df)
    IN  IF e.status = "raise" \/ PLBoostRaises(p.name, lookback_df) THEN Raised(p.name)
        ELSE Eval(p.name, "ok",
                  apply_confidence_calibration(
                      e.final_confidence
                      + PLEnsembleBoost(p.name, home_team, away_team, lookback_df)
                      + PLSpecialtyBoost(p.name, home_team, away_team)),
                  PLAdjustedThreshold(p.name, p.threshold, hs, as))

\* predictions.sort(key=confidence, reverse=True) then max(key=risk_adjusted):
\* among the listed evaluations of maximal risk-adjusted confidence the one of
\* highest confidence, the earliest of those
PLBest(evs, listed) ==
    CHOOSE i \in listed :
        /\ \A j \in listed : evs[j].risk_adjusted_confidence <= evs[i].risk_adjusted_confidence
        /\ \A j \in listed :
              evs[j].risk_adjusted_confidence = evs[i].risk_adjusted_confidence
                 => \/ evs[j].confidence < evs[i].confidence
                    \/ (evs[j].confidence = evs[i].confidence /\ i <= j)

\* the empty-list return of lines 288-291
PLInsufficientHistory == EmptyList

\* SimplePremierLeaguePredictor.predict (and its alias predict_match)
PLPredict(filtered_patterns, self_df, home_team, away_team, match_date) ==
    LET df == WithFTR(self_df)
        lookback_df == TfData(df, match_date, lookback_days)
        team_matches == SelectSeq(lookback_df, LAMBDA r :
                            r["HomeTeam"] \in {home_team, away_team}
                            \/ r["AwayTeam"] \in {home_team, away_team})
        all == [i \in 1..Len(filtered_patterns) |->
                   PLEval(filtered_patterns[i], df, lookback_df, home_team, away_team, match_date)]
        evs == UntilRaise(all)
        listed == {i \in 1..Len(evs) : evs[i].confidence >= evs[i].threshold}
    IN  IF Len(lookback_df) = 0 THEN NoBet(<<>>)
        ELSE IF Len(team_matches) < 3 THEN PLInsufficientHistory
        ELSE IF AnyRaise(evs) THEN Exception(evs)
        ELSE IF listed = {} THEN NoBet(evs)
        ELSE BestBet(evs[PLBest(evs, listed)], evs[PLBest(evs, listed)].threshold, evs)

(***************************************************************************)
(* simple_bundesliga_predictor.py and simple_la_liga_predictor.py          *)
(***************************************************************************)
BundesligaWeights ==
    (7 :> Pct(40)) @@ (14 :> Pct(30)) @@ (30 :> Pct(15)) @@ (90 :> Pct(10)) @@ (365 :> Pct(5))

LaLigaWeights ==
    (7 :> Pct(40)) @@ (14 :> Pct(30)) @@ (30 :> Pct(15)) @@ (90 :> Pct(10)) @@ (365 :> Pct(5))

BundesligaThresholds ==
    [total_over_8_5_corners |-> Pct(60), total_over_7_5_corners |-> Pct(60),
     home_over_2_5_corners |-> Pct(55), away_over_2_5_corners |-> Pct(55),
     both_teams_to_score |-> Pct(99), home_over_0_5_goals |-> Pct(85),
     away_over_0_5_goals |-> Pct(85), total_over_2_5_goals |-> Pct(70),
     total_under_2_5_goals |-> Pct(70)]

LaLigaThresholds ==
    [home_over_2_5_corners |-> Pct(55), away_over_2_5_corners |-> Pct(60),
     total_over_7_5_corners |-> Pct(60), total_over_8_5_corners |-> Pct(99),
     away_over_0_5_cards |-> Pct(60), home_over_0_5_cards |-> Pct(60),
     home_over_0_5_goals |-> Pct(65), total_over_1_5_goals |-> Pct(60),
     away_over_0_5_goals |-> Pct(70), both_teams_to_score |-> Pct(99),
     total_over_2_5_goals |-> Pct(99), total_under_2_5_goals |-> Pct(99),
     home_over_1_5_goals |-> Pct(99)]

\* self.confidence_thresholds.get(pattern_name, pattern.default_threshold)
ThresholdOr(thresholds, p) ==
    IF p.name \in DOMAIN thresholds THEN thresholds[p.name] ELSE p.threshold

\* _estimate_odds: the first key of expected_odds that occurs in the name, times 100
BundesligaOdds(pattern_name) ==
    IF In("over_0_5_goals", pattern_name) THEN 120
    ELSE IF In("over_1_5_goals", pattern_name) THEN 160
    ELSE IF In("over_2_5_goals", pattern_name) THEN 220
    ELSE IF In("under_2_5_goals", pattern_name) THEN 180
    ELSE IF In("over_7_5_corners", pattern_name) THEN 190
    ELSE IF In("over_8_5_corners", pattern_name) THEN 230
    ELSE 200

LaLigaOdds(pattern_name) ==
    IF In("over_0_5_goals", pattern_name) THEN 120
    ELSE IF In("over_1_5_goals", pattern_name) THEN 160
    ELSE IF In("over_2_5_goals", pattern_name) THEN 220
    ELSE IF In("under_2_5_goals", pattern_name) THEN 180
    ELSE IF In("over_0_5_cards", pattern_name) THEN 130
    ELSE IF In("over_7_5_corners", pattern_name) THEN 170
    ELSE IF In("over_8_5_corners", pattern_name) THEN 190
    ELSE 200

\* expected_value = confidence * (odds - 1) - (1 - confidence)
ExpectedValue(confidence, odds) == (confidence * (odds - 100)) \div 100 - (ONE - confidence)

Mul(a, b) == (a * b) \div ONE

TeamMatches(d, team) == SelectSeq(d, LAMBDA r : r["HomeTeam"] = team \/ r["AwayTeam"] = team)

\* _calculate_form_score: one match's 0.7 * result_score + 0.3 * goal_score
MatchFormScore(match, team) ==
    LET is_home == match["HomeTeam"] = team
        result_score == IF match["FTR"] = (IF is_home THEN "H" ELSE "A") THEN ONE
                        ELSE IF match["FTR"] = "D" THEN ONE \div 2 ELSE 0
        goals == IF is_home THEN match["FTHG"] ELSE match["FTAG"]
        goal_score == Min2((goals * ONE) \div 3, ONE)
    IN  (7 * result_score + 3 * goal_score) \div 10

RECURSIVE FormScoreSum(_, _)
FormScoreSum(matches, team) ==
    IF matches = <<>> THEN 0
    ELSE MatchFormScore(Head(matches), team) + FormScoreSum(Tail(matches), team)

calculate_form_score(matches, team) ==
    IF Len(matches) = 0 THEN ONE \div 2 ELSE FormScoreSum(matches, team) \div Len(matches)

\* get_team_recent_form: the team's last 10 rows of the frame it is given
get_team_recent_form(team, historical_data) ==
    LET team_matches == TailN(TeamMatches(historical_data, team), 10)
        last_5 == TailN(team_matches, 5)
        prev_5 == IF Len(team_matches) > 5 THEN HeadN(team_matches, Len(team_matches) - 5)
                  ELSE <<>>
    IN  IF Len(team_matches) < 3 THEN ONE \div 2
        ELSE (75 * calculate_form_score(last_5, team)
              + 25 * calculate_form_score(prev_5, team)) \div 100

\* match['FTR'], match['FTHG'], match['FTAG'] raise when the frame has no such column
FormRaises(team, historical_data) ==
    LET team_matches == TailN(TeamMatches(historical_data, team), 10)
    IN  /\ Len(team_matches) >= 3
        /\ \E i \in 1..Len(team_matches) :
              ~({"FTR", "FTHG", "FTAG"} \subseteq DOMAIN team_matches[i])

\* get_team_corner_style: avg = avg_num/avg_den, volatility^2 = var_num/var_den
CornerStyle(team, historical_data, is_home, default_avg) ==
    LET team_matches == TailN(IF is_home THEN HomeMatches(historical_data, team)
                              ELSE AwayMatches(historical_data, team), 10)
        corners == Column(team_matches, IF is_home THEN "HC" ELSE "AC")
        n == Len(corners)
    IN  IF n < 3
        THEN [avg_num |-> default_avg, avg_den |-> 1, var_num |-> 1, var_den |-> 1,
              neutral |-> TRUE]
        ELSE [avg_num |-> SumSeq(corners), avg_den |-> n,
              var_num |-> n * SumSq(corners) - SumSeq(corners) * SumSeq(corners),
              var_den |-> n * n, neutral |-> FALSE]

\* style == 'attacking': avg above the cut given in halves (6.0 = 12/2, 6.5 = 13/2)
Attacking(style, cut_halves) ==
    ~style.neutral /\ 2 * style.avg_num > cut_halves * style.avg_den

LowVolatility(style) == 4 * style.var_num < 9 * style.var_den      \* volatility < 1.5

BundesligaEnsembleBoost(pattern_name, hs, as) ==
    IF In("corner", pattern_name)
    THEN (IF In("over_8_5", pattern_name) /\ AvgSumTwice(hs, as) > 16 * AvgSumDen(hs, as)
          THEN Pct(5)
          ELSE IF In("over_7_5", pattern_name) /\ AvgSumTwice(hs, as) > 15 * AvgSumDen(hs, as)
          THEN Pct(5) ELSE 0)
         + (IF Attacking(hs, 12) /\ Attacking(as, 12) THEN Pct(3) ELSE 0)
         + (IF LowVolatility(hs) /\ LowVolatility(as) THEN Pct(2) ELSE 0)
    ELSE 0

LaLigaEnsembleBoost(pattern_name, hs, as) ==
    IF In("corner", pattern_name)
    THEN (IF In("over_8_5", pattern_name) /\ AvgSumTwice(hs, as) > 17 * AvgSumDen(hs, as)
          THEN Pct(5) ELSE 0)
         + (IF Attacking(hs, 13) /\ Attacking(as, 13) THEN Pct(3) ELSE 0)
         + (IF LowVolatility(hs) /\ LowVolatility(as) THEN Pct(2) ELSE 0)
    ELSE 0

\* dates are day numbers; a year is twelve 30-day months
MonthOf(date) == ((date \div 30) % 12) + 1

get_season_adjustment(match_date) ==
    IF MonthOf(match_date) <= 8 THEN Pct(95)
    ELSE IF MonthOf(match_date) >= 11 THEN ONE
    ELSE Pct(98)

\* confidence *= 0.85 + 0.15 * form, the form chosen by the name
FormFactor(pattern_name, home_form, away_form) ==
    Pct(85) + Mul(Pct(15), IF In("home", pattern_name) THEN home_form
                           ELSE IF In("away", pattern_name) THEN away_form
                           ELSE (home_form + away_form) \div 2)

LaLigaCalibration(raw_confidence) ==
    IF Pct(85) <= raw_confidence /\ raw_confidence < Pct(90) THEN (raw_confidence * 90) \div 100
    ELSE IF Pct(90) <= raw_confidence /\ raw_confidence < Pct(95)
    THEN (raw_confidence * 92) \div 100
    ELSE IF raw_confidence >= Pct(95) THEN (raw_confidence * 88) \div 100
    ELSE raw_confidence

EvalEV(name, confidence, threshold, odds) ==
    Eval(name, "ok", confidence, threshold)
        @@ [expected_value |-> ExpectedValue(confidence, odds)]

\* one pass of the loop body of SimpleBundesligaPredictor.predict_match
BundesligaEval(p, historical_data, home_team, away_team, match_date) ==
    LET e == CalculateMultiTimeframeConfidence(historical_data, match_date, p.name, 2, 8,
                                               BundesligaWeights, TRUE)
        home_form == get_team_recent_form(home_team, historical_data)
        away_form == get_team_recent_form(away_team, historical_data)
        hs == CornerStyle(home_team, historical_data, TRUE, 4)
        as == CornerStyle(away_team, historical_data, FALSE, 4)
        formed == Mul(e.final_confidence, FormFactor(p.name, home_form, away_form))
        boosted == formed + BundesligaEnsembleBoost(p.name, hs, as)
        confidence == Min2(Mul(boosted, get_season_adjustment(match_date)), Pct(95))
    IN  IF e.status = "raise" THEN Raised(p.name)
        ELSE IF e.final_confidence = 0 THEN Skipped(p.name)
        ELSE EvalEV(p.name, confidence, ThresholdOr(BundesligaThresholds, p),
                    BundesligaOdds(p.name))

LaLigaEval(p, historical_data, home_team, away_team, match_date) ==
    LET e == CalculateMultiTimeframeConfidence(historical_data, match_date, p.name, 2, 8,
                                               LaLigaWeights, TRUE)
        home_form == get_team_recent_form(home_team, historical_data)
        away_form == get_team_recent_form(away_team, historical_data)
        hs == CornerStyle(home_team, historical_data, TRUE, 5)
        as == CornerStyle(away_team, historical_data, FALSE, 5)
        formed == Mul(e.final_confidence, FormFactor(p.name, home_form, away_form))
        boosted == formed + LaLigaEnsembleBoost(p.name, hs, as)
        confidence == Min2(LaLigaCalibration(boosted), Pct(95))
    IN  IF e.status = "raise" THEN Raised(p.name)
        ELSE IF e.final_confidence = 0 THEN Skipped(p.name)
        ELSE EvalEV(p.name, confidence, ThresholdOr(LaLigaThresholds, p), LaLigaOdds(p.name))

\* the "BET" filter: confidence >= threshold and expected_value > 0.05
IsBet(e) == e.status = "ok" /\ e.confidence >= e.threshold /\ e.expected_value > Pct(5)

\* the tail shared by both predict_match: filter, risk-adjust, max
BestOfBets(evs) ==
    LET bets == {i \in 1..Len(evs) : IsBet(evs[i])}
    IN  IF AnyRaise(evs) THEN Exception(evs)
        ELSE IF bets = {} THEN NoBet(evs)
        ELSE BestBet(evs[FirstMax(evs, bets)], evs[FirstMax(evs, bets)].threshold, evs)

\* SimpleBundesligaPredictor.predict_match (predict_match_simple passes self.data)
BundesligaPredictMatch(reg, historical_data, home_team, away_team, match_date) ==
    IF FormRaises(home_team, historical_data) \/ FormRaises(away_team, historical_data)
    THEN Exception(<<>>)
    ELSE BestOfBets(UntilRaise([i \in 1..Len(reg) |->
             BundesligaEval(reg[i], historical_data, home_team, away_team, match_date)]))

\* SimpleLaLigaPredictor.predict_match (predict_match_simple passes self.data)
LaLigaPredictMatch(reg, historical_data, home_team, away_team, match_date) ==
    IF FormRaises(home_team, historical_data) \/ FormRaises(away_team, historical_data)
    THEN Exception(<<>>)
    ELSE BestOfBets(UntilRaise([i \in 1..Len(reg) |->
             LaLigaEval(reg[i], historical_data, home_team, away_team, match_date)]))

(***************************************************************************)
(* The league selectors.  The state is the one a script is in after it has *)
(* set up one league's predictor (clear_patterns, register_*_patterns,     *)
(* constructor): the registry holds that league's patterns, data is the    *)
(* frame the predictor loaded, call is the match it is asked about.  The   *)
(* Bundesliga constructor registers nothing: in the all-leagues backtest   *)
(* it runs over the patterns the Serie A constructor registered before it. *)
(* LoadMoreData is the store growing by a record dated on or after the     *)
(* match date (a later load of the same source, ascending by Date).        *)
(***************************************************************************)
MaxLater == 1                \* records dated on or after the match date that may be added

Leagues == {"romanian", "serie_a", "premier_league", "bundesliga", "la_liga"}

CatalogOf(league) ==
    CASE league = "romanian" -> RomanianPatterns
      [] league = "serie_a" -> SerieAPatterns
      [] league = "premier_league" -> PremierLeaguePatterns
      [] league = "bundesliga" -> SerieAPatterns
      [] OTHER -> LaLigaPatterns

\* pred maps a league to its predictor object: not constructed yet, or the
\* attributes the constructor left on it (other than the loaded frame)
NotBuilt == [status |-> "none", filtered_patterns |-> <<>>]
Built(filtered_patterns) == [status |-> "built", filtered_patterns |-> filtered_patterns]

NewPredictor(league, reg) ==
    IF league = "premier_league" THEN Built(FilteredPatterns(reg)) ELSE Built(<<>>)

SelectSlotDates == <<900, 985, 996>>

OldBlockChoices == {[kind |-> "high", n |-> 0]} \cup [kind : RowKinds, n : {3 * MaxBlock}]
SelectBlockChoices == {[kind |-> "high", n |-> 0]} \cup [kind : RowKinds, n : {1, 3 * MaxBlock}]

SelectCorpus(c1, c2, c3) ==
    BlockRows(c1, SelectSlotDates[1]) \o BlockRows(c2, SelectSlotDates[2])
        \o BlockRows(c3, SelectSlotDates[3])

\* a frame whose source has no FTR column
WithoutFTR(d) == [i \in 1..Len(d) |-> DropCols(d[i], {"FTR"})]

SelectCorpora ==
    {SelectCorpus(c1, c2, c3) : c1 \in OldBlockChoices, c2 \in OldBlockChoices,
                                c3 \in SelectBlockChoices}
    \cup {WithoutFTR(SelectCorpus([kind |-> "high", n |-> 0], c2, c3)) :
              c2 \in [kind : {"high"}, n : {3 * MaxBlock}], c3 \in SelectBlockChoices}

Requests ==
    {[home_team |-> "Liverpool", away_team |-> "Arsenal", match_date |-> AsOfDate],
     [home_team |-> "Chelsea", away_team |-> "Liverpool", match_date |-> AsOfDate]}

\* use_ensemble is an argument of the Romanian and Serie A predict_match only
Modes(league) == IF league \in {"romanian", "serie_a"} THEN BOOLEAN ELSE {TRUE}

LaterRows == {HighRow(AsOfDate), LowRow(AsOfDate + 3)}

LaterCount(d) == Cardinality({i \in 1..Len(d) : d[i]["Date"] >= AsOfDate})

InitSelect ==
    /\ data \in SelectCorpora
    /\ \E league \in Leagues :
          /\ registry = CatalogOf(league)
          /\ pred = [l \in Leagues |-> IF l = league
                                       THEN NewPredictor(league, CatalogOf(league))
                                       ELSE NotBuilt]
          /\ \E r \in Requests, m \in Modes(league) :
                call = r @@ [use_ensemble |-> m]
    /\ ret = NoResult /\ prev = NoResult
    /\ eng_in = NoValue /\ eng_out = NoValue /\ bt = NoValue

LoadMoreData ==
    /\ LaterCount(data) < MaxLater
    /\ \E r \in LaterRows :
          data' = Append(data, IF Len(data) > 0 THEN [k \in DOMAIN data[1] |-> r[k]] ELSE r)
    /\ UNCHANGED <<eng_in, eng_out, registry, pred, call, ret, prev, bt>>

PredictRomanian ==
    /\ pred["romanian"].status = "built"
    /\ ret' = RomanianPredictMatch(registry, data, call.match_date, call.use_ensemble)
    /\ prev' = ret
    /\ UNCHANGED <<data, eng_in, eng_out, registry, pred, call, bt>>

PredictSerieA ==
    /\ pred["serie_a"].status = "built"
    /\ ret' = SerieAPredictMatch(registry, data, call.match_date, call.use_ensemble)
    /\ prev' = ret
    /\ UNCHANGED <<data, eng_in, eng_out, registry, pred, call, bt>>

PredictPremierLeague ==
    /\ pred["premier_league"].status = "built"
    /\ ret' = PLPredict(pred["premier_league"].filtered_patterns, data, call.home_team, call.away_team,
                        call.match_date)
    /\ prev' = ret
    /\ UNCHANGED <<data, eng_in, eng_out, registry, pred, call, bt>>

\* predict_match_simple: predict_match over self.data
PredictBundesliga ==
    /\ pred["bundesliga"].status = "built"
    /\ ret' = BundesligaPredictMatch(registry, data, call.home_team, call.away_team,
                                     call.match_date)
    /\ prev' = ret
    /\ UNCHANGED <<data, eng_in, eng_out, registry, pred, call, bt>>

PredictLaLiga ==
    /\ pred["la_liga"].status = "built"
    /\ ret' = LaLigaPredictMatch(registry, data, call.home_team, call.away_team,
                                 call.match_date)
    /\ prev' = ret
    /\ UNCHANGED <<data, eng_in, eng_out, registry, pred, call, bt>>

NextSelect ==
    \/ LoadMoreData
    \/ PredictRomanian
    \/ PredictSerieA
    \/ PredictPremierLeague
    \/ PredictBundesliga
    \/ PredictLaLiga

SpecSelect == InitSelect /\ [][NextSelect]_vars

\* what the caller of a selector sees
Outcome(r) ==
    [status |-> r.status, pattern_name |-> r.pattern_name, confidence |-> r.confidence,
     risk_adjusted_confidence |-> r.risk_adjusted_confidence, threshold |-> r.threshold]

\* the evaluations of a call whose risk-adjusted confidence reaches their threshold
Candidates(r) ==
    {i \in 1..Len(r.evals) :
        /\ r.evals[i].status = "ok"
        /\ r.evals[i].risk_adjusted_confidence >= r.evals[i].threshold}

(***************************************************************************)
(* C1: no lookahead.  The match asked about is fixed and the store only    *)
(* grows by records dated on or after the match date, so two successive    *)
(* predictions of one behaviour are predictions for the same as-of date    *)
(* over a store and over that store with later records appended: they      *)
(* must be the same prediction.                                            *)
(***************************************************************************)
C1_NoLookahead ==
    (prev.status # "none") => (Outcome(prev) = Outcome(ret))

(***************************************************************************)
(* C4: a selector call returns exactly one best bet or None: never an      *)
(* empty collection and never an error.                                    *)
(***************************************************************************)
C4_OneBestBetOrNone ==
    ret.status \in {"none", "bet", "no_bet"}

(***************************************************************************)
(* C5: the threshold test is applied to the risk-adjusted confidence: a    *)
(* returned best bet has a risk-adjusted confidence of at least the        *)
(* threshold it is returned with.                                          *)
(***************************************************************************)
C5_ThresholdOnRiskAdjusted ==
    (ret.status = "bet") => (ret.risk_adjusted_confidence >= ret.threshold)

(***************************************************************************)
(* C6: the returned best bet has the maximum risk-adjusted confidence      *)
(* among the candidates, the patterns whose risk-adjusted confidence       *)
(* reaches their effective threshold.                                      *)
(***************************************************************************)
C6_BestIsMaxRiskAdjusted ==
    (ret.status = "bet") =>
        \A i \in Candidates(ret) :
            ret.evals[i].risk_adjusted_confidence <= ret.risk_adjusted_confidence

(***************************************************************************)
(* C10: per-pattern isolation.  A failure while evaluating one pattern     *)
(* does not leave the selector call: no call ends in the exception of a    *)
(* pattern evaluation.                                                     *)
(***************************************************************************)
C10_PatternFailureIsolated ==
    ~(ret.status = "raise" /\ AnyRaise(ret.evals))

(***************************************************************************)
(* The shared registry across predictors.  The state after import holds    *)
(* the example patterns of registry.py; the constructors of the Romanian,  *)
(* Serie A and Premier League predictors clear the registry and register   *)
(* their league's patterns, the Bundesliga and La Liga constructors leave  *)
(* it alone and their scripts register before constructing.                *)
(***************************************************************************)
CatalogCorpus ==
    SelectCorpus([kind |-> "high", n |-> MaxBlock], [kind |-> "mid", n |-> MaxBlock],
                 [kind |-> "low", n |-> 1])

InitCatalog ==
    /\ registry = RegisterAll(<<>>, ExamplePatterns)
    /\ pred = [l \in Leagues |-> NotBuilt]
    /\ data = CatalogCorpus
    /\ \E r \in Requests : call = r @@ [use_ensemble |-> TRUE]
    /\ ret = NoResult /\ prev = NoResult
    /\ eng_in = NoValue /\ eng_out = NoValue /\ bt = NoValue

\* SimpleRomanianPredictor.__init__
ConstructRomanian ==
    /\ registry' = RegisterAll(clear_patterns, RomanianPatterns)
    /\ pred' = [pred EXCEPT !["romanian"] = NewPredictor("romanian", registry')]
    /\ UNCHANGED <<data, eng_in, eng_out, call, ret, prev, bt>>

\* SimpleSerieAPredictor.__init__
ConstructSerieA ==
    /\ registry' = RegisterAll(clear_patterns, SerieAPatterns)
    /\ pred' = [pred EXCEPT !["serie_a"] = NewPredictor("serie_a", registry')]
    /\ UNCHANGED <<data, eng_in, eng_out, call, ret, prev, bt>>

\* SimplePremierLeaguePredictor.__init__
ConstructPremierLeague ==
    /\ registry' = RegisterAll(clear_patterns, PremierLeaguePatterns)
    /\ pred' = [pred EXCEPT !["premier_league"] = NewPredictor("premier_league", registry')]
    /\ UNCHANGED <<data, eng_in, eng_out, call, ret, prev, bt>>

\* SimpleBundesligaPredictor.__init__ registers nothing
ConstructBundesliga ==
    /\ pred' = [pred EXCEPT !["bundesliga"] = NewPredictor("bundesliga", registry)]
    /\ UNCHANGED <<data, eng_in, eng_out, registry, call, ret, prev, bt>>

\* test_league_14days: clear_patterns(); register_la_liga_patterns(); SimpleLaLigaPredictor()
SetUpLaLiga ==
    /\ registry' = RegisterAll(clear_patterns, LaLigaPatterns)
    /\ pred' = [pred EXCEPT !["la_liga"] = NewPredictor("la_liga", registry')]
    /\ UNCHANGED <<data, eng_in, eng_out, call, ret, prev, bt>>

NextCatalog ==
    \/ ConstructRomanian
    \/ ConstructSerieA
    \/ ConstructPremierLeague
    \/ ConstructBundesliga
    \/ SetUpLaLiga
    \/ PredictRomanian
    \/ PredictSerieA
    \/ PredictPremierLeague
    \/ PredictBundesliga
    \/ PredictLaLiga

SpecCatalog == InitCatalog /\ [][NextCatalog]_vars

\* the names of the patterns a predictor evaluates when it is called
CatalogNames(league, p, reg) ==
    CASE league = "romanian" ->
             SelectSeq(list_patterns(reg), LAMBDA n : n \in DOMAIN RomanianThresholds)
      [] league = "serie_a" ->
             SelectSeq(list_patterns(reg), LAMBDA n : n \in DOMAIN SerieAThresholds)
      [] league = "premier_league" -> NamesOf(p.filtered_patterns)
      [] OTHER -> list_patterns(reg)

(***************************************************************************)
(* C7: the catalog is immutable once handed to a predictor: no step,       *)
(* the construction of another league's predictor included, changes the    *)
(* patterns an already constructed predictor evaluates.                    *)
(***************************************************************************)
C7_CatalogImmutable ==
    [][\A l \in Leagues :
          (pred[l].status = "built")
              => (CatalogNames(l, pred'[l], registry') = CatalogNames(l, pred[l], registry))]_vars

(***************************************************************************)
(* features/romanian_builder.py and models/logistic.py, as far as          *)
(* RomanianMatchPredictor.predict_match depends on them: how many feature  *)
(* rows and columns come back, whether fit raises, and what predict_proba  *)
(* answers.  Frames are shorter than the 50 rows from which the            *)
(* head-to-head columns are filled, so those columns are zero.             *)
(***************************************************************************)
min_matches == 3

\* dt.dayofweek >= 5, day number 0 being a Monday
IsWeekend(date) == (date % 7) >= 5

FrameHas(d, cols) == \A i \in 1..Len(d) : cols \subseteq DOMAIN d[i]

PriorMatches(d, team, idx) ==
    Cardinality({j \in 1..(idx - 1) : d[j]["HomeTeam"] = team \/ d[j]["AwayTeam"] = team})

\* _get_team_stats takes the branch that reads team_match['FTHG'], ['FTAG'], ['FTR']
\* for a team with min_matches earlier rows; build_features turns a KeyError into None
BuildFeaturesRaises(d) ==
    /\ ~FrameHas(d, {"FTHG", "FTAG", "FTR"})
    /\ \E i \in 1..Len(d) :
          \/ PriorMatches(d, d[i]["HomeTeam"], i) >= min_matches
          \/ PriorMatches(d, d[i]["AwayTeam"], i) >= min_matches

\* build_features keeps the columns whose dtype is float64 or int64: the 19
\* statistics of each team, is_weekend, days_since_season_start, the four
\* head-to-head columns, and day_of_week and month where the date accessors
\* return int64 (they return int32 in later versions of the data library)
TrainedFeatureCount(int64_date_parts) == 19 + 19 + 2 + 4 + (IF int64_date_parts THEN 2 ELSE 0)

\* a row of zeros: both teams on the default statistics, a weekday, the first
\* date of the frame (and no month column, which is never zero)
ZeroRows(d, int64_date_parts) ==
    IF int64_date_parts THEN {}
    ELSE {i \in 1..Len(d) :
             /\ d[i]["Date"] = d[1]["Date"]
             /\ ~IsWeekend(d[i]["Date"])
             /\ PriorMatches(d, d[i]["HomeTeam"], i) < min_matches
             /\ PriorMatches(d, d[i]["AwayTeam"], i) < min_matches}

\* len(build_features(...)), or -1 for None
FeatureRows(d, int64_date_parts) ==
    LET valid == Len(d) - Cardinality(ZeroRows(d, int64_date_parts))
    IN  IF BuildFeaturesRaises(d) \/ valid < min_matches THEN 0 - 1 ELSE valid

\* build_match_features: the sorted statistics of both teams (19 defaults for a
\* team with fewer than min_matches rows, 22 computed ones otherwise), four
\* match constants and four head-to-head constants
TeamFeatureCount(d, team) == IF Len(TeamMatches(d, team)) < min_matches THEN 19 ELSE 22

MatchFeatureCount(d, home_team, away_team) ==
    TeamFeatureCount(d, home_team) + TeamFeatureCount(d, away_team) + 4 + 4

\* SimpleLogisticTrainer.fit on a frame with both classes: the dummy model when
\* there are fewer than two positives, the fitted pipeline otherwise
FittedModel(d, name, int64_date_parts) ==
    [kind |-> IF Hits(d, name) < 2 THEN "dummy" ELSE "logistic",
     positive_rate |-> Max2(Pct(1), Min2(Pct(99), (Hits(d, name) * ONE) \div Len(d))),
     n_features |-> TrainedFeatureCount(int64_date_parts)]

\* _validate_inputs: ValueError when X and y differ in length or are shorter than 5
FitRaises(feature_rows, label_rows) == feature_rows # label_rows \/ feature_rows < 5

\* lines 326-346 for a frame with feature_rows feature rows: "untrained" (nothing
\* cached), "raise" (the pattern is skipped) or "trained"
TrainOutcomeOf(name, d, feature_rows) ==
    IF feature_rows <= 10 THEN "untrained"
    ELSE IF ApplyRaises(d, name) THEN "raise"
    ELSE IF Hits(d, name) = 0 \/ Hits(d, name) = Len(d) THEN "untrained"
    ELSE IF FitRaises(feature_rows, Len(d)) THEN "raise"
    ELSE "trained"

TrainOutcome(name, d, int64_date_parts) ==
    TrainOutcomeOf(name, d, FeatureRows(d, int64_date_parts))

\* lines 349-360: predict_proba raises ValueError when the columns differ from
\* the trained ones and the caller falls back to 0.5.  Only the dummy model's
\* answer is spelled out: the frames of this model never give a request the
\* trained number of columns.
ModelConfidence(model, d, home_team, away_team) ==
    IF MatchFeatureCount(d, home_team, away_team) # model.n_features THEN ONE \div 2
    ELSE model.positive_rate

(***************************************************************************)
(* predictor/romanian_predictor.py: RomanianMatchPredictor.  A form score  *)
(* f is the integer f * 10000 and odds o the integer o * 100.              *)
(***************************************************************************)
MatchThresholds ==
    [home_over_0_5_goals |-> Pct(55), away_over_0_5_goals |-> Pct(55),
     total_over_8_5_corners |-> Pct(60), home_over_0_5_cards |-> Pct(55),
     away_over_0_5_cards |-> Pct(55), home_over_1_5_cards |-> Pct(65),
     away_over_1_5_cards |-> Pct(65), both_teams_to_score |-> Pct(60),
     total_under_2_5_goals |-> Pct(70), total_over_3_5_goals |-> Pct(75),
     away_over_2_5_corners |-> Pct(65), home_over_2_5_goals |-> Pct(70),
     total_over_2_5_goals |-> Pct(62), total_over_1_5_goals |-> Pct(58),
     home_over_1_5_goals |-> Pct(65), away_over_1_5_goals |-> Pct(65),
     total_under_3_5_goals |-> Pct(60), home_over_3_5_corners |-> Pct(70),
     away_over_3_5_corners |-> Pct(70)]

\* _get_pattern_threshold
get_pattern_threshold(pattern_name) ==
    IF pattern_name \in DOMAIN MatchThresholds THEN MatchThresholds[pattern_name] ELSE Pct(70)

\* _get_expected_odds: the first key of expected_odds that occurs in the name
get_expected_odds(pattern_name) ==
    IF In("over_0_5_goals", pattern_name) THEN 115
    ELSE IF In("over_1_5_goals", pattern_name) THEN 160
    ELSE IF In("over_2_5_goals", pattern_name) THEN 220
    ELSE IF In("over_3_5_goals", pattern_name) THEN 450
    ELSE IF In("under_2_5_goals", pattern_name) THEN 175
    ELSE IF In("under_3_5_goals", pattern_name) THEN 140
    ELSE IF In("both_teams_to_score", pattern_name) THEN 190
    ELSE IF In("over_8_5_corners", pattern_name) THEN 185
    ELSE IF In("over_1_5_cards", pattern_name) THEN 170
    ELSE IF In("over_2_5_corners", pattern_name) THEN 165
    ELSE IF In("over_3_5_corners", pattern_name) THEN 280
    ELSE 180

\* _calculate_expected_value: confidence * odds - 1
calculate_expected_value(confidence, odds) == (confidence * odds) \div 100 - ONE

\* _get_season_adjustment: avg_matches <= 6, <= 27, above
season_adjustment(home_team, away_team, historical_data) ==
    LET twice_avg == Len(TeamMatches(historical_data, home_team))
                     + Len(TeamMatches(historical_data, away_team))
    IN  IF twice_avg <= 12 THEN Pct(8) ELSE IF twice_avg <= 54 THEN 0 - Pct(3) ELSE Pct(2)

FormPoints(match, team) ==
    LET ftr == IF Has(match, "FTR") THEN match["FTR"] ELSE "None"
    IN  IF ftr = (IF match["HomeTeam"] = team THEN "H" ELSE "A") THEN 3
        ELSE IF ftr = "D" THEN 1 ELSE 0

FormGoalDiff(match, team) ==
    IF match["HomeTeam"] = team THEN Get(match, "FTHG") - Get(match, "FTAG")
    ELSE Get(match, "FTAG") - Get(match, "FTHG")

\* weights: the last 5 of the team's rows count 3, the earlier ones 1
FormWeight(i, n) == IF i > n - 5 THEN 3 ELSE 1

\* sum over the rows from i on of weight * (5 * points + goal difference)
RECURSIVE WeightedForm(_, _, _)
WeightedForm(team_matches, team, i) ==
    IF i > Len(team_matches) THEN 0
    ELSE FormWeight(i, Len(team_matches))
            * (5 * FormPoints(team_matches[i], team) + FormGoalDiff(team_matches[i], team))
         + WeightedForm(team_matches, team, i + 1)

\* form_score = avg_points + 0.2 * avg_goal_diff, kept within [0, 3.5]
FormScore(team_matches, team) ==
    LET n == Len(team_matches)
    IN  IF n = 0 THEN (3 * ONE) \div 2
        ELSE Max2(0, Min2((7 * ONE) \div 2,
                          (WeightedForm(team_matches, team, 1) * ONE)
                              \div (5 * (n + 2 * Min2(n, 5)))))

\* _get_team_recent_form: over the team's last 10 rows of the frame
team_recent_form(team, historical_data) ==
    FormScore(TailN(TeamMatches(historical_data, team), 10), team)

FormAdjustment(avg_form) ==
    IF avg_form >= 2 * ONE THEN 0 - Pct(5)
    ELSE IF avg_form >= (3 * ONE) \div 2 THEN 0 - Pct(2)
    ELSE IF avg_form <= (8 * ONE) \div 10 THEN Pct(10)
    ELSE IF avg_form <= ONE THEN Pct(5)
    ELSE 0

\* lines 138-170: the threshold from the two form scores and the season adjustment
AdaptedThreshold(pattern_name, home_form, away_form, season) ==
    LET corner == IF In("corner", pattern_name) /\ Max2(home_form, away_form) >= (22 * ONE) \div 10
                  THEN 0 - Pct(3) ELSE 0
        card == IF In("card", pattern_name) /\ Abs(home_form - away_form) <= (3 * ONE) \div 10
                THEN 0 - Pct(2) ELSE 0
    IN  Max2(Pct(50), Min2(Pct(90),
            get_pattern_threshold(pattern_name) + FormAdjustment((home_form + away_form) \div 2)
            + season + corner + card))

\* _get_adaptive_threshold
get_adaptive_threshold(pattern_name, home_team, away_team, historical_data) ==
    AdaptedThreshold(pattern_name, team_recent_form(home_team, historical_data),
                     team_recent_form(away_team, historical_data),
                     season_adjustment(home_team, away_team, historical_data))

\* pattern_name.split('_')[-1]
LastSegment(pattern_name) ==
    IF In("goal", pattern_name) THEN "goals"
    ELSE IF In("corner", pattern_name) THEN "corners"
    ELSE IF In("card", pattern_name) THEN "cards"
    ELSE IF pattern_name = "both_teams_to_score" THEN "score"
    ELSE IF pattern_name = "home_win" THEN "win"
    ELSE pattern_name

base_confidence ==
    [over_0_5_goals |-> Pct(72), over_1_5_goals |-> Pct(65), over_2_5_goals |-> Pct(45),
     over_3_5_goals |-> Pct(20), under_2_5_goals |-> Pct(55), both_teams_to_score |-> Pct(50),
     over_8_5_corners |-> Pct(58), over_1_5_cards |-> Pct(61)]

\* _estimate_confidence_heuristic; variance is the value np.random.normal(0, 0.05) drew
estimate_confidence_heuristic(pattern_name, variance) ==
    Max2(Pct(10), Min2(Pct(90),
        (IF LastSegment(pattern_name) \in DOMAIN base_confidence
         THEN base_confidence[LastSegment(pattern_name)] ELSE Pct(50)) + variance))

\* self.trained_models: a model per pattern name, NoModel where the dict has no entry
NoModel == [kind |-> "none", positive_rate |-> 0, n_features |-> 0]
ModelKeys == DOMAIN MatchThresholds
EmptyModels == [k \in ModelKeys |-> NoModel]

\* one pass of the loop body, lines 318-400: the recommendation appended (or the
\* pattern skipped by `continue`) and the entry of trained_models afterwards
MatchPatternStep(name, trained_models, int64_date_parts, historical_data, home_team, away_team, variance) ==
    LET cached == trained_models[name].kind # "none"
        outcome == IF cached THEN "cached"
                   ELSE TrainOutcome(name, historical_data, int64_date_parts)
        model == IF cached THEN trained_models[name]
                 ELSE IF outcome = "trained"
                 THEN FittedModel(historical_data, name, int64_date_parts)
                 ELSE NoModel
        confidence == IF model.kind # "none"
                      THEN ModelConfidence(model, historical_data, home_team, away_team)
                      ELSE estimate_confidence_heuristic(name, variance)
        threshold == get_adaptive_threshold(name, home_team, away_team, historical_data)
    IN  [model |-> model,
         eval |-> IF outcome = "raise" THEN Skipped(name)
                  ELSE Eval(name, "ok", confidence, threshold)
                       @@ [expected_value |->
                              calculate_expected_value(confidence, get_expected_odds(name))]]

\* RomanianMatchPredictor.predict_match: the MatchPrediction returned and
\* self.trained_models when it returns
MatchPredictMatch(trained_models, int64_date_parts, reg, historical_data, home_team, away_team, variance) ==
    LET names == list_patterns(reg)
        steps == [i \in 1..Len(names) |->
                     IF names[i] \notin DOMAIN MatchThresholds
                     THEN [model |-> NoModel, eval |-> Skipped(names[i])]
                     ELSE MatchPatternStep(names[i], trained_models, int64_date_parts,
                                           historical_data, home_team, away_team,
                                           variance[names[i]])] \o <<>>
        recommendations == [i \in 1..Len(names) |-> steps[i].eval] \o <<>>
    IN  [result |-> BestOfBets(recommendations),
         trained_models |->
             [k \in ModelKeys |->
                 IF \E i \in 1..Len(names) : names[i] = k
                 THEN steps[CHOOSE i \in 1..Len(names) : names[i] = k].model
                 ELSE trained_models[k]]]

(***************************************************************************)
(* One RomanianMatchPredictor instance asked about matches: each call      *)
(* brings its own historical frame and draws one random value per pattern  *)
(* it reaches the heuristic for.  Every frame gives each request a team    *)
(* with min_matches rows.                                                  *)
(***************************************************************************)
VarianceDraws == {0 - Pct(5), Pct(12)}

\* the registered patterns the predictor has a threshold for
HeuristicNames == {n \in NameSet(RomanianPatterns) : n \in DOMAIN MatchThresholds}

MatchCorpora ==
    {SelectCorpus(c1, c2, c3) :
        c1 \in {[kind |-> "high", n |-> 0], [kind |-> "high", n |-> 3 * MaxBlock]},
        c2 \in {[kind |-> "high", n |-> 0], [kind |-> "high", n |-> 3 * MaxBlock]},
        c3 \in [kind : {"high", "low"}, n : {MaxBlock}]}

NotCalled == [status |-> "none"]

InitMatch ==
    /\ registry = RegisterAll(clear_patterns, RomanianPatterns)
    /\ \E b \in BOOLEAN :
          pred = [status |-> "built", trained_models |-> EmptyModels, int64_date_parts |-> b]
    /\ data = <<>>
    /\ call = NotCalled
    /\ ret = NoResult /\ prev = NoResult
    /\ eng_in = NoValue /\ eng_out = NoValue /\ bt = NoValue

\* predictor.predict_match(match_data, historical_data)
MatchPredict ==
    \E historical_data \in MatchCorpora, r \in Requests,
       variance \in [HeuristicNames -> VarianceDraws] :
        LET out == MatchPredictMatch(pred.trained_models, pred.int64_date_parts, registry,
                                     historical_data, r.home_team, r.away_team, variance)
        IN  /\ data' = historical_data
            /\ call' = [status |-> "called", home_team |-> r.home_team,
                        away_team |-> r.away_team, variance |-> variance,
                        models_before |-> pred.trained_models]
            /\ ret' = out.result
            /\ pred' = [pred EXCEPT !.trained_models = out.trained_models]
            /\ UNCHANGED <<eng_in, eng_out, registry, prev, bt>>

\* RomanianMatchPredictor.__init__: a new instance in place of the old one
ConstructMatchPredictor ==
    /\ call.status = "called"
    /\ registry' = RegisterAll(clear_patterns, RomanianPatterns)
    /\ pred' = [pred EXCEPT !.trained_models = EmptyModels]
    /\ data' = <<>>
    /\ call' = NotCalled
    /\ ret' = NoResult
    /\ UNCHANGED <<eng_in, eng_out, prev, bt>>

NextMatch ==
    \/ MatchPredict
    \/ ConstructMatchPredictor

SpecMatch == InitMatch /\ [][NextMatch]_vars

(***************************************************************************)
(* C8: determinism.  Two successive calls of one predictor with the same   *)
(* frame and the same match, made over the same trained_models, return     *)
(* the same prediction: nothing random enters a prediction.                *)
(***************************************************************************)
C8_Deterministic ==
    [][(/\ call.status = "called" /\ call'.status = "called"
        /\ data' = data
        /\ call'.home_team = call.home_team /\ call'.away_team = call.away_team
        /\ call'.models_before = call.models_before)
          => (ret' = ret)]_vars

(***************************************************************************)
(* C9: prediction is stateless per call.  Whatever was predicted earlier   *)
(* with the instance, a call returns what a newly constructed predictor    *)
(* returns for the same frame and match (and the same random draws).       *)
(***************************************************************************)
C9_StatelessPerCall ==
    (call.status = "called") =>
        (ret = MatchPredictMatch(EmptyModels, pred.int64_date_parts, registry, data,
                                 call.home_team, call.away_team, call.variance).result)


(***************************************************************************)
(* The walk-forward backtests: backtest_league of                          *)
(* backtest_all_leagues_14days.py, test_league_14days of                   *)
(* quick_14day_backtest.py and run_simple_backtest of eval/backtest.py.    *)
(* data is the frame the script loaded; bt is the running backtest: the    *)
(* test matches, how many of them the loop has been through, and, for the  *)
(* last one, the match, what the loop did with it (step), the rows the     *)
(* prediction read (history), the rows whose columns were the model's      *)
(* input features (inputs) and the counters.                               *)
(***************************************************************************)
min_history == 30            \* `if len(historical) < 30: continue`
backtest_days == 14          \* days=14, timedelta(days=14)
hist_tail == 200             \* .tail(200)
min_training_matches == 100  \* `if len(training_matches) < 100`
min_team_matches == 10       \* `if len(team_matches) >= 10`
MaxTests == 4                \* matches in the test window of a corpus

Before(d, date) == SelectSeq(d, LAMBDA r : r["Date"] < date)
Between(d, lo, hi) == SelectSeq(d, LAMBDA r : r["Date"] >= lo /\ r["Date"] <= hi)
After(d, lo, hi) == SelectSeq(d, LAMBDA r : r["Date"] > lo /\ r["Date"] <= hi)
MaxDate(d) == CHOOSE x \in {d[i]["Date"] : i \in 1..Len(d)} :
                 \A i \in 1..Len(d) : x >= d[i]["Date"]

Idle == [status |-> "idle"]

Running(script, test_matches) ==
    [status |-> "running", script |-> script, test_matches |-> test_matches, pos |-> 0,
     step |-> "none", match |-> NoValue, history |-> <<>>, inputs |-> <<>>,
     total |-> 0, correct |-> 0, losses |-> 0, by_pattern |-> <<>>]

\* the loop went through one more match
Advance(b, match, step, history, inputs) ==
    [b EXCEPT !.pos = b.pos + 1, !.match = match, !.step = step,
              !.history = history, !.inputs = inputs]

\* ... and counted a bet on it
Count(b, won) ==
    [b EXCEPT !.total = b.total + 1, !.correct = b.correct + (IF won THEN 1 ELSE 0),
              !.losses = b.losses + (IF won THEN 0 ELSE 1)]

PatternStats(b, name) ==
    IF name \in DOMAIN b.by_pattern THEN b.by_pattern[name] ELSE [total |-> 0, correct |-> 0]

\* per-pattern counters that count the bets that were right only
CountByPatternWinsOnly(b, name, won) ==
    [b EXCEPT !.by_pattern = [n \in DOMAIN @ \cup {name} |->
        IF n = name
        THEN [total |-> PatternStats(b, name).total + (IF won THEN 1 ELSE 0),
              correct |-> PatternStats(b, name).correct + (IF won THEN 1 ELSE 0)]
        ELSE @[n]]]
\* ... and under its pattern: by_pattern[name]['total'] and, if right, ['correct']
CountByPattern(b, name, won) ==
    [b EXCEPT !.by_pattern = [n \in DOMAIN @ \cup {name} |->
        IF n = name
        THEN [total |-> PatternStats(b, name).total + 1,
              correct |-> PatternStats(b, name).correct + (IF won THEN 1 ELSE 0)]
        ELSE @[n]]]

HasPattern(reg, name) == name \in NameSet(reg)

(***************************************************************************)
(* Frames the backtests run on, ascending by Date as the adapters load     *)
(* them: a block of old rows, then the matches of the last two weeks, two  *)
(* a day.                                                                  *)
(***************************************************************************)
OldDate == AsOfDate - 30
TestDate(i) == 988 + 3 * ((i + 1) \div 2)
TestKinds == <<"high", "low", "mid">>
TestRows == [i \in 1..MaxTests |-> RowOf(TestKinds[((i - 1) % 3) + 1], TestDate(i))]

BacktestCorpus(kind, n) == Replicate(RowOf(kind, OldDate), n) \o TestRows

BacktestCorpora ==
    {BacktestCorpus(kind, n) : kind \in {"high", "mid"}, n \in {min_history - 2, min_history}}
    \cup {WithoutFTR(BacktestCorpus("high", min_history))}

\* run_simple_backtest trains for the home matches of these teams (the last
\* one is spelled with s-cedilla in the source)
teams == <<"FCSB", "CFR Cluj", "CS U Craiova", "Rapid Bucuresti">>
patterns_to_test == <<"home_over_1_5_goals", "total_over_2_5_goals", "home_over_4_corners">>

FcsbWin(d) == Rec(d, "FCSB", "CFR Cluj", 2, 1, 6, 3, 1, 1)
FcsbDraw(d) == Rec(d, "FCSB", "Rapid Bucuresti", 0, 0, 2, 2, 1, 1)

SimpleTestRows ==
    [i \in 1..MaxTests |->
        IF i % 3 = 1 THEN FcsbWin(TestDate(i))
        ELSE IF i % 3 = 2 THEN FcsbDraw(TestDate(i)) ELSE LowRow(TestDate(i))]

SimpleCorpus(others, wins, draws) ==
    Replicate(LowRow(OldDate - 30), others) \o Replicate(FcsbWin(OldDate), wins)
        \o Replicate(FcsbDraw(OldDate), draws) \o SimpleTestRows

SimpleCorpora ==
    {SimpleCorpus(min_training_matches - min_team_matches, 6, 4),
     SimpleCorpus(min_training_matches - min_team_matches, min_team_matches, 0),
     SimpleCorpus(min_training_matches - min_team_matches + 1, 6, 3),
     SimpleCorpus(min_training_matches - min_team_matches - 1, 6, 4)}

(***************************************************************************)
(* backtest_all_leagues_14days.py                                          *)
(***************************************************************************)
InitBacktest ==
    /\ data \in BacktestCorpora \cup SimpleCorpora
    /\ registry = ExamplePatterns
    /\ pred = NoValue
    /\ bt = Idle
    /\ call = NotCalled
    /\ ret = NoResult /\ prev = NoResult
    /\ eng_in = NoValue /\ eng_out = NoValue

\* main, lines 231-246, for one league: the constructor (it loads the league's
\* frame and registers its patterns) and backtest_league up to its loop
StartBacktestLeague ==
    /\ bt.status = "idle"
    /\ data \in BacktestCorpora
    /\ \E league \in Leagues :
          /\ registry' = CatalogOf(league)
          /\ pred' = [league |-> league, data |-> data,
                      filtered_patterns |-> NewPredictor(league, CatalogOf(league)).filtered_patterns]
    /\ LET latest_date == MaxDate(data)
           cutoff_date == latest_date - backtest_days
           test_matches == After(data, cutoff_date, latest_date)
       IN  bt' = IF Len(test_matches) = 0
                 THEN [Running("all_leagues", test_matches) EXCEPT !.status = "returned"]
                 ELSE Running("all_leagues", test_matches)
    /\ UNCHANGED <<data, eng_in, eng_out, call, ret, prev>>

\* lines 74-101: the interface the loop finds on the predictor and the answer it
\* gets from it for a match, given the rows dated before the match
LeaguePrediction(league, reg, p, historical, home_team, away_team, match_date) ==
    CASE league = "serie_a" -> SerieAPredictMatch(reg, p.data, match_date, TRUE)
      [] league = "premier_league" ->
             PLPredict(p.filtered_patterns, p.data, home_team, away_team, match_date)
      [] league = "bundesliga" ->
             BundesligaPredictMatch(reg, historical, home_team, away_team, match_date)
      [] league = "la_liga" ->
             LaLigaPredictMatch(reg, historical, home_team, away_team, match_date)
      [] OTHER -> RomanianPredictMatch(reg, historical, match_date, TRUE)

\* the rows that answer is computed from: predict_match(match_date=...) of Serie
\* A and the Premier League reads self.data before match_date, the Romanian
\* predict_match the frame it is handed before match_date, and
\* predict_match_simple the whole of self.data, which the loop has swapped for
\* the rows before the match
LeagueRowsRead(league, p, historical, match_date) ==
    IF league \in {"serie_a", "premier_league"} THEN Before(p.data, match_date)
    ELSE IF league \in {"bundesliga", "la_liga"} THEN historical
    ELSE Before(historical, match_date)

\* lines 103-149: what the loop does with the predictor's answer
BacktestLeagueAfter(b, reg, match, read, prediction) ==
    IF prediction.status = "raise"
    THEN Advance(b, match, "caught", read, <<>>)
    ELSE IF \/ prediction.status # "bet"
            \/ prediction.risk_adjusted_confidence = 0 \/ prediction.threshold = 0
            \/ prediction.risk_adjusted_confidence < prediction.threshold
            \/ ~HasPattern(reg, prediction.pattern_name)
    THEN Advance(b, match, "no_bet", read, <<>>)
    ELSE IF Raises(prediction.pattern_name, match)
    THEN Advance(b, match, "caught", read, <<>>)
    ELSE CountByPattern(Count(Advance(b, match, "bet", read, <<>>),
                              Label(prediction.pattern_name, match)),
                        prediction.pattern_name, Label(prediction.pattern_name, match))

\* lines 84-94: predict_match_simple raising leaves predictor.data swapped
BacktestLeaguePredictor(p, historical, prediction) ==
    IF p.league \in {"bundesliga", "la_liga"} /\ prediction.status = "raise"
    THEN [p EXCEPT !.data = historical]
    ELSE p

\* lines 67-149: one pass of the loop over test_matches (match, historical and
\* prediction are the loop's local variables)
BacktestLeagueStep ==
    /\ bt.status = "running" /\ bt.script = "all_leagues"
    /\ bt.pos < Len(bt.test_matches)
    /\ \E match \in {bt.test_matches[bt.pos + 1]} :
       \E historical \in {Before(pred.data, match["Date"])} :
          IF Len(historical) < min_history
          THEN /\ bt' = Advance(bt, match, "skipped", <<>>, <<>>)
               /\ UNCHANGED <<pred, ret>>
          ELSE \E match_date \in {MaxDate(historical)} :
               \E prediction \in {LeaguePrediction(pred.league, registry, pred, historical,
                                      match["HomeTeam"], match["AwayTeam"], match_date)} :
                  /\ ret' = prediction
                  /\ pred' = BacktestLeaguePredictor(pred, historical, prediction)
                  /\ bt' = BacktestLeagueAfter(bt, registry, match,
                               LeagueRowsRead(pred.league, pred, historical, match_date),
                               prediction)
    /\ UNCHANGED <<data, eng_in, eng_out, registry, call, prev>>

(***************************************************************************)
(* quick_14day_backtest.py.  Its Bundesliga run registers a catalogue that *)
(* is not among the sources; the runs modelled are the other three.  An    *)
(* exception in the loop leaves the script (status "aborted").             *)
(***************************************************************************)
QuickLeagues == {"premier_league", "la_liga", "romanian"}

\* lines 38-41: the rows with corner data
ValidData(d) ==
    IF FrameHas(d, {"HC", "AC"})
    THEN SelectSeq(d, LAMBDA r : r["HC"] >= 0 /\ r["AC"] >= 0)
    ELSE d

\* lines 35-56: the frame, the test period, the registry and the predictor
StartQuickBacktest ==
    /\ bt.status = "idle"
    /\ data \in BacktestCorpora
    /\ data' = ValidData(data)
    /\ \E league \in QuickLeagues, b \in BOOLEAN :
          /\ registry' = RegisterAll(clear_patterns, CatalogOf(league))
          /\ pred' = [league |-> league, data |-> data',
                      filtered_patterns |-> NewPredictor(league, CatalogOf(league)).filtered_patterns,
                      trained_models |-> EmptyModels,
                      int64_date_parts |-> IF league = "romanian" THEN b ELSE TRUE]
    /\ LET end_date == MaxDate(data')
           start_date == end_date - backtest_days
       IN  bt' = Running("quick", Between(data', start_date, end_date))
    /\ UNCHANGED <<eng_in, eng_out, call, ret, prev>>

\* lines 68-75: the predictor's answer and its trained_models afterwards.  The
\* Premier League predictor gets hist where it expects match_date, and its
\* pd.Timestamp(hist.iloc[0]) raises TypeError
QuickPrediction(p, reg, hist, match, variance) ==
    CASE p.league = "premier_league" ->
             [result |-> Exception(<<>>), trained_models |-> p.trained_models]
      [] p.league = "la_liga" ->
             [result |-> LaLigaPredictMatch(reg, hist, match["HomeTeam"], match["AwayTeam"],
                                            match["Date"]),
              trained_models |-> p.trained_models]
      [] OTHER -> MatchPredictMatch(p.trained_models, p.int64_date_parts, reg, hist,
                                    match["HomeTeam"], match["AwayTeam"], variance)

\* the rows the answer is computed from, and the rows the match features of
\* RomanianFeatureBuilder.build_match_features are built from
QuickRowsRead(league, hist) == IF league = "premier_league" THEN <<>> ELSE hist
QuickInputs(league, hist) == IF league = "romanian" THEN hist ELSE <<>>

\* lines 78-98: what the loop does with best_bet.  The La Liga answer is a dict
\* keyed 'pattern_name': after bets += 1, best_bet['pattern'] raises KeyError
\* (total is bets and correct is wins; units follows from wins and losses)
QuickAfter(league, b, reg, match, read, inputs, best_bet) ==
    IF best_bet.status = "raise"
    THEN [Advance(b, match, "raised", read, inputs) EXCEPT !.status = "aborted"]
    ELSE IF best_bet.status # "bet"
    THEN Advance(b, match, "no_bet", read, inputs)
    ELSE IF league = "la_liga"
    THEN [Advance(b, match, "raised", read, inputs)
             EXCEPT !.status = "aborted", !.total = b.total + 1]
    ELSE IF ~HasPattern(reg, best_bet.pattern_name)
    THEN [Advance(b, match, "no_bet", read, inputs) EXCEPT !.total = b.total + 1]
    ELSE IF Raises(best_bet.pattern_name, match)
    THEN [Advance(b, match, "raised", read, inputs)
             EXCEPT !.status = "aborted", !.total = b.total + 1]
    ELSE Count(Advance(b, match, "bet", read, inputs), Label(best_bet.pattern_name, match))

\* lines 62-98: one pass of the loop over test_data (match, hist and the
\* predictor's answer are the loop's local variables)
QuickBacktestStep ==
    /\ bt.status = "running" /\ bt.script = "quick"
    /\ bt.pos < Len(bt.test_matches)
    /\ \E match \in {bt.test_matches[bt.pos + 1]} :
       \E hist \in {TailN(Before(data, match["Date"]), hist_tail)} :
          IF Len(hist) < min_history
          THEN /\ bt' = Advance(bt, match, "skipped", <<>>, <<>>)
               /\ UNCHANGED <<pred, ret>>
          ELSE \E variance \in IF pred.league = "romanian"
                               THEN [HeuristicNames -> VarianceDraws] ELSE {<<>>} :
               \E out \in {QuickPrediction(pred, registry, hist, match, variance)} :
                  /\ ret' = out.result
                  /\ pred' = [pred EXCEPT !.trained_models = out.trained_models]
                  /\ bt' = QuickAfter(pred.league, bt, registry, match,
                                      QuickRowsRead(pred.league, hist),
                                      QuickInputs(pred.league, hist), out.result)
    /\ UNCHANGED <<data, eng_in, eng_out, registry, call, prev>>

(***************************************************************************)
(* eval/backtest.py: run_simple_backtest.  The probability a fitted        *)
(* pipeline answers for a feature row is not computed here: it is one of   *)
(* ClassifierAnswers, chosen per pattern and match.                        *)
(***************************************************************************)
ClassifierAnswers == {Pct(30), Pct(90)}
SimpleStartDates == {TestDate(1), TestDate(MaxTests)}
SimpleCols == {"FTHG", "FTAG", "HC", "AC"}

\* lines 106-133 for one (team, pattern): no entry, the dummy model (the fit of a
\* single class raises inside SimpleLogisticTrainer.fit) or the fitted pipeline
SimpleModel(team_matches, name) ==
    IF Len(team_matches) < min_team_matches \/ Hits(team_matches, name) < 2 THEN NoModel
    ELSE [kind |-> IF Hits(team_matches, name) = Len(team_matches) THEN "dummy" ELSE "logistic",
          positive_rate |-> Max2(Pct(1), Min2(Pct(99),
                               (Hits(team_matches, name) * ONE) \div Len(team_matches))),
          n_features |-> 6]

SimpleModels(training_matches) ==
    [t \in 1..Len(teams) |-> [k \in 1..Len(patterns_to_test) |->
        SimpleModel(SelectSeq(training_matches, LAMBDA r : r["HomeTeam"] = teams[t]),
                    patterns_to_test[k])]]

\* the loop of lines 153-177: the index of the model whose bet is kept, or 0
RECURSIVE SimpleBest(_, _, _, _)
SimpleBest(confidence, reg, k, best) ==
    IF k > Len(patterns_to_test) THEN best
    ELSE LET best_confidence == IF best = 0 THEN 0 ELSE confidence[best]
             threshold == reg[CHOOSE i \in 1..Len(reg) :
                                 reg[i].name = patterns_to_test[k]].threshold
         IN  IF confidence[k] >= 0 /\ confidence[k] > threshold
                /\ confidence[k] > best_confidence
             THEN SimpleBest(confidence, reg, k + 1, k)
             ELSE SimpleBest(confidence, reg, k + 1, best)

\* lines 31-135: the split into training and test matches and the training
StartSimpleBacktest ==
    /\ bt.status = "idle"
    /\ data \in SimpleCorpora
    /\ \E start_dt \in SimpleStartDates :
          LET end_dt == start_dt + backtest_days
              training_end == start_dt - 1
              training_matches == Between(data, MinDate(data), training_end)
              test_matches == Between(data, start_dt, end_dt)
              raises == \/ Len(training_matches) < min_training_matches
                        \/ Len(test_matches) = 0
                        \/ ~FrameHas(data, SimpleCols)
                        \/ \E k \in 1..Len(patterns_to_test) :
                              ~HasPattern(registry, patterns_to_test[k])
          IN  /\ bt' = IF raises
                       THEN [Running("simple", test_matches) EXCEPT !.status = "raised"]
                       ELSE Running("simple", test_matches)
              /\ pred' = [league |-> "romanian", data |-> training_matches,
                          trained_models |-> IF raises THEN <<>>
                                             ELSE SimpleModels(training_matches)]
    /\ UNCHANGED <<data, eng_in, eng_out, registry, call, ret, prev>>

\* lines 146-207: one pass of the loop over test_matches
SimpleBacktestStep ==
    /\ bt.status = "running" /\ bt.script = "simple"
    /\ bt.pos < Len(bt.test_matches)
    /\ LET match == bt.test_matches[bt.pos + 1]
           home_team == match["HomeTeam"]
           mine == {t \in 1..Len(teams) : teams[t] = home_team}
       IN  IF mine = {} \/ \A t \in mine : \A k \in 1..Len(patterns_to_test) :
                              pred.trained_models[t][k].kind = "none"
           THEN /\ bt' = Advance(bt, match, "skipped", <<>>, <<>>)
                /\ ret' = NoBet(<<>>)
           ELSE \E answer \in [1..Len(patterns_to_test) -> ClassifierAnswers] :
                LET models == pred.trained_models[CHOOSE t \in mine : TRUE]
                    \* proba[0][1] of each model for test_features.loc[[idx]], the
                    \* match's own row; -1 where the team has no model
                    confidence == [k \in 1..Len(patterns_to_test) |->
                                      IF models[k].kind = "none" THEN 0 - 1
                                      ELSE IF models[k].kind = "dummy"
                                      THEN models[k].positive_rate ELSE answer[k]]
                    best == SimpleBest(confidence, registry, 1, 0)
                    history == SelectSeq(pred.data, LAMBDA r : r["HomeTeam"] = home_team)
                    inputs == IF \E k \in 1..Len(patterns_to_test) : models[k].kind = "logistic"
                              THEN <<match>> ELSE <<>>
                IN  IF best = 0
                    THEN /\ bt' = Advance(bt, match, "no_bet", history, inputs)
                         /\ ret' = NoBet(<<>>)
                    ELSE /\ ret' = Result("bet", patterns_to_test[best], confidence[best],
                                          confidence[best], 0, <<>>)
                         /\ bt' = IF Raises(patterns_to_test[best], match)
                                  THEN [Advance(bt, match, "raised", history, inputs)
                                           EXCEPT !.status = "aborted", !.total = bt.total + 1]
                                  ELSE Count(Advance(bt, match, "bet", history, inputs),
                                             Label(patterns_to_test[best], match))
    /\ UNCHANGED <<data, eng_in, eng_out, registry, pred, call, prev>>

NextBacktest ==
    \/ StartBacktestLeague
    \/ BacktestLeagueStep
    \/ StartQuickBacktest
    \/ QuickBacktestStep
    \/ StartSimpleBacktest
    \/ SimpleBacktestStep

SpecBacktest == InitBacktest /\ [][NextBacktest]_vars

(***************************************************************************)
(* C2: no lookahead in the walk-forward backtests.  Whenever a backtest    *)
(* has computed a prediction for a match M, every row the prediction read  *)
(* as history and every row whose columns were the model's input features  *)
(* is dated before M's date (so none of them is M itself).                 *)
(***************************************************************************)
C2_BacktestNoLookahead ==
    (bt.status \in {"running", "aborted"} /\ bt.pos > 0) =>
        /\ \A i \in 1..Len(bt.history) : bt.history[i]["Date"] < bt.match["Date"]
        /\ \A i \in 1..Len(bt.inputs) : bt.inputs[i]["Date"] < bt.match["Date"]

(***************************************************************************)
(* Predicates evaluated on single records: pattern.label_fn(row) for a     *)
(* pattern of the registry and a record that may lack columns.  call is    *)
(* the evaluation made, ret its outcome: a boolean or an exception.        *)
(***************************************************************************)
StatColumns == {"FTHG", "FTAG", "HC", "AC", "HY", "AY"}

\* records with every column, without one statistic, or without any
PredicateRows ==
    {DropCols(RowOf(kind, AsOfDate), cols) :
        kind \in RowKinds,
        cols \in {c \in SUBSET StatColumns : Cardinality(c) \in {0, 1, Cardinality(StatColumns)}}}

\* the record with every statistic it lacks set to 0
ZeroFilled(r) ==
    [k \in DOMAIN r \cup StatColumns |-> IF k \in DOMAIN r THEN r[k] ELSE 0]

\* label_fn(row) of the pattern registered under name
EvalPredicate(name, r) ==
    IF Raises(name, r) THEN [status |-> "raise"]
    ELSE [status |-> "bool", value |-> Label(name, r)]

InitPredicate ==
    /\ registry = ExamplePatterns
    /\ call = NotCalled
    /\ ret = NoValue /\ prev = NoValue
    /\ data = <<>> /\ pred = NoValue /\ bt = NoValue
    /\ eng_in = NoValue /\ eng_out = NoValue

\* clear_patterns() followed by a league's register_*_patterns()
RegisterLeaguePatterns ==
    /\ \E league \in Leagues : registry' = RegisterAll(clear_patterns, CatalogOf(league))
    /\ UNCHANGED <<data, eng_in, eng_out, pred, call, ret, prev, bt>>

\* get_pattern(name).label_fn(row)
EvaluatePredicate ==
    /\ \E i \in 1..Len(registry), r \in PredicateRows :
          /\ call' = [status |-> "evaluated", name |-> registry[i].name, row |-> r]
          /\ ret' = EvalPredicate(registry[i].name, r)
    /\ UNCHANGED <<data, eng_in, eng_out, registry, pred, prev, bt>>

NextPredicate ==
    \/ RegisterLeaguePatterns
    \/ EvaluatePredicate

SpecPredicate == InitPredicate /\ [][NextPredicate]_vars

(***************************************************************************)
(* C11: a predicate evaluated on a record that lacks a statistic it        *)
(* refers to never raises: it answers the boolean it answers on the same   *)
(* record with the missing statistics set to 0.                            *)
(***************************************************************************)
C11_MissingStatisticIsZero ==
    (call.status = "evaluated") =>
        /\ ret.status = "bool"
        /\ ret.value = Label(call.name, ZeroFilled(call.row))

(***************************************************************************)
(* The engine's breakdown measured against the corpus: the windows of the  *)
(* call in SpecEngine, their rows and their hit rates, taken from data.    *)
(***************************************************************************)
EngineTimeframes ==
    EffectiveTimeframes(data, eng_in.match_date, eng_in.config.custom, TRUE)
WindowRows(days) == TfData(data, eng_in.match_date, days)
HitRate(days) == (Hits(WindowRows(days), eng_in.pattern) * ONE) \div Len(WindowRows(days))
\* the windows with positive weight and at least one match
UsedWindows ==
    {days \in DOMAIN EngineTimeframes :
        EngineTimeframes[days] > 0 /\ Len(WindowRows(days)) > 0}
WeightedMean ==
    SumFn([days \in UsedWindows |-> HitRate(days) * EngineTimeframes[days]], UsedWindows)
        \div SumFn(EngineTimeframes, UsedWindows)

(***************************************************************************)
(* C12: ensemble_confidence is the weighted mean of the hit rates of the   *)
(* windows that have positive weight and at least one match, divided by    *)
(* the sum of those windows' weights: a window without matches adds        *)
(* nothing to the sum and nothing to the denominator.                      *)
(***************************************************************************)
C12_EnsembleIsWeightedMean ==
    (eng_out.status = "ok" /\ UsedWindows # {}) =>
        /\ ~eng_out.error
        /\ eng_out.ensemble_confidence = WeightedMean

\* a call with an empty weighted window and two used windows of different hit rates
C12_Witness ==
    /\ eng_out.status = "ok" /\ ~eng_out.error
    /\ \E days \in DOMAIN EngineTimeframes :
          EngineTimeframes[days] > 0 /\ Len(WindowRows(days)) = 0
    /\ \E a \in UsedWindows, b \in UsedWindows : HitRate(a) # HitRate(b)
    /\ eng_out.ensemble_confidence = WeightedMean

(***************************************************************************)
(* C13: sample-size validation, for any configured minimums.  With both    *)
(* counts at or above their minimums the sample adjustment is 0;           *)
(* otherwise, with both counts within one-to-two of their minimums, it is  *)
(* -0.02; otherwise it is -0.05.  The formula states what every reading of *)
(* "within one-to-two" agrees on: both counts no more than one below their *)
(* minimum is adequate, a count more than two below is insufficient.       *)
(***************************************************************************)
C13_SampleAdjustment ==
    (eng_out.status = "ok" /\ ~eng_out.error) =>
        LET matches_7d == Len(WindowRows(7))
            matches_30d == Len(WindowRows(30))
            min7 == eng_in.config.min7
            min30 == eng_in.config.min30
            sufficient == matches_7d >= min7 /\ matches_30d >= min30
        IN  /\ sufficient => eng_out.sample_adjustment = 0
            /\ (~sufficient /\ matches_7d >= min7 - 1 /\ matches_30d >= min30 - 1)
                  => eng_out.sample_adjustment = 0 - Pct(2)
            /\ (matches_7d < min7 - 2 \/ matches_30d < min30 - 2)
                  => eng_out.sample_adjustment = 0 - Pct(5)

\* the hit rate of a window, ensemble_confidence standing in for a window that
\* is not configured or has no matches
RateOrEnsemble(days) ==
    IF days \in DOMAIN EngineTimeframes /\ Len(WindowRows(days)) > 0
    THEN HitRate(days) ELSE eng_out.ensemble_confidence
DeltaShort == RateOrEnsemble(7) - RateOrEnsemble(30)
DeltaLong == RateOrEnsemble(30) - RateOrEnsemble(365)

(***************************************************************************)
(* C14: trend detection.  With delta_short = hit_rate(7d) - hit_rate(30d)  *)
(* and delta_long = hit_rate(30d) - hit_rate(365d), ensemble_confidence    *)
(* standing in for a missing window, trend_adjustment is +0.02 exactly     *)
(* when delta_short > 0.03 and delta_long >= -0.02, -0.02 exactly when     *)
(* delta_short < -0.03 and delta_long <= 0.02, and 0 otherwise.            *)
(***************************************************************************)
C14_TrendAdjustment ==
    (eng_out.status = "ok" /\ ~eng_out.error) =>
        eng_out.trend_adjustment =
            IF DeltaShort > Pct(3) /\ DeltaLong >= 0 - Pct(2) THEN Pct(2)
            ELSE IF DeltaShort < 0 - Pct(3) /\ DeltaLong <= Pct(2) THEN 0 - Pct(2)
            ELSE 0

\* the short trend is up but the 30-day rate lies well below the season's: stable
C14_Witness ==
    /\ eng_out.status = "ok" /\ ~eng_out.error
    /\ DeltaShort > Pct(3) /\ DeltaLong < 0 - Pct(2)
    /\ eng_out.trend_adjustment = 0

\* k^2 * std^2 of the hit rates of the used windows, k the number of them:
\* the squared differences summed over the pairs of windows
UsedPairs == {p \in UsedWindows \X UsedWindows : p[1] < p[2]}
SquaredSpread == SumFn([p \in UsedPairs |-> (HitRate(p[1]) - HitRate(p[2])) * (HitRate(p[1]) - HitRate(p[2]))], UsedPairs)
\* std < bound, both sides squared and multiplied by k^2
StdBelow(bound) == SquaredSpread < bound * bound * Cardinality(UsedWindows) * Cardinality(UsedWindows)

WithoutAllHistory ==
    CalculateMultiTimeframeConfidence(data, eng_in.match_date, eng_in.pattern,
        eng_in.config.min7, eng_in.config.min30, eng_in.config.custom, FALSE)

(***************************************************************************)
(* C16: the zero-weight entire-history window is diagnostic only.  For any *)
(* corpus and as-of date the engine's ensemble_confidence,                 *)
(* final_confidence and no-data outcome are the same whether or not that   *)
(* window is computed.                                                     *)
(***************************************************************************)
C16_AllHistoryWindowIsDiagnostic ==
    (eng_out.status = "ok") =>
        /\ eng_out.error = WithoutAllHistory.error
        /\ eng_out.final_confidence = WithoutAllHistory.final_confidence
        /\ ~eng_out.error => eng_out.ensemble_confidence = WithoutAllHistory.ensemble_confidence

NoWindowHasMatches == \A days \in DOMAIN EngineTimeframes : Len(WindowRows(days)) = 0

(***************************************************************************)
(* C17: if no window has any matches for the given corpus and as-of date,  *)
(* the engine does not fail: it returns final_confidence = 0.5 together    *)
(* with an explicit no-data flag in the breakdown.                         *)
(***************************************************************************)
C17_NoDataReturnsHalfWithFlag ==
    (eng_out # NoValue /\ NoWindowHasMatches) =>
        /\ eng_out.status = "ok"
        /\ eng_out.error
        /\ eng_out.final_confidence = ONE \div 2

\* the corpus has matches, none of them inside a window
C17_Witness ==
    /\ eng_out # NoValue /\ NoWindowHasMatches
    /\ Len(data) > 0
    /\ eng_out.status = "ok" /\ eng_out.error
    /\ eng_out.final_confidence = ONE \div 2

(***************************************************************************)
(* patterns/risk_adjustment.py called on its own: the penalty lookup, the  *)
(* risk-adjusted confidence, and the selection among recommended bets that *)
(* closes SimpleBundesligaPredictor.predict_match.                         *)
(***************************************************************************)
\* names with an entry in the table, registered names without one, and a
\* registered name that contains no category word
RiskNames ==
    {"total_over_2_5_goals", "over_2_5_goals", "home_over_2_5_corners",
     "away_over_0_5_cards", "home_win", "draw", "over_10_5_shots",
     "total_over_6_5_corners", "total_over_4_5_goals", "home_over_3_5_cards",
     "away_win_or_draw", "both_teams_to_score"}

\* the category words that occur in a name as substrings
CategoryWords(name) ==
    CASE name \in {"total_over_2_5_goals", "over_2_5_goals", "total_over_4_5_goals"} -> {"goal"}
      [] name \in {"home_over_2_5_corners", "total_over_6_5_corners"} -> {"corner"}
      [] name \in {"away_over_0_5_cards", "home_over_3_5_cards"} -> {"card"}
      [] name = "over_10_5_shots" -> {"shot"}
      [] name = "home_win" -> {"win"}
      [] name = "draw" -> {"draw"}
      [] name = "away_win_or_draw" -> {"win", "draw"}
      [] OTHER -> {}

\* risk_adjustment.py 141-159
get_pattern_category(pattern_name) ==
    IF "goal" \in CategoryWords(pattern_name) THEN "goals"
    ELSE IF "corner" \in CategoryWords(pattern_name) THEN "corners"
    ELSE IF CategoryWords(pattern_name) \cap {"card", "yellow", "red"} # {} THEN "cards"
    ELSE IF "shot" \in CategoryWords(pattern_name) THEN "shots"
    ELSE "other"

\* the name contains the substring of goals, corners, cards or match result
MatchesCategory(pattern_name) ==
    \/ get_pattern_category(pattern_name) \in {"goals", "corners", "cards"}
    \/ CategoryWords(pattern_name) \cap {"win", "draw"} # {}

RiskConfidences ==
    {0 - Pct(10), 0, Pct(1), Pct(3), Pct(5), Pct(50), Pct(74), Pct(78), Pct(80),
     Pct(95), Pct(99), ONE, ONE + Pct(2), ONE + Pct(30)}

BetNames == {"total_over_2_5_goals", "home_over_2_5_corners", "total_over_8_5_corners"}
BetConfidences == {Pct(60), Pct(78), Pct(80), Pct(82)}
MaxBets == 2
BetLists == UNION {[1..n -> [name : BetNames, confidence : BetConfidences]] : n \in 1..MaxBets}

\* the recommendations of simple_bundesliga_predictor.py 312-338 for given confidences
Recommendations(bets) ==
    [i \in 1..Len(bets) |->
        EvalEV(bets[i].name, bets[i].confidence, BundesligaThresholds[bets[i].name],
               BundesligaOdds(bets[i].name))]

InitRisk ==
    /\ call = NotCalled /\ ret = NoValue
    /\ registry = <<>> /\ data = <<>> /\ pred = NoValue /\ prev = NoValue
    /\ bt = NoValue /\ eng_in = NoValue /\ eng_out = NoValue

GetPatternRiskPenalty ==
    /\ call = NotCalled
    /\ \E name \in RiskNames :
          /\ call' = [status |-> "get_pattern_risk_penalty", pattern_name |-> name]
          /\ ret' = [status |-> "float", value |-> get_pattern_risk_penalty(name)]
    /\ UNCHANGED <<data, eng_in, eng_out, registry, pred, prev, bt>>

CalculateRiskAdjustedConfidence ==
    /\ call = NotCalled
    /\ \E name \in RiskNames, confidence \in RiskConfidences :
          /\ call' = [status |-> "calculate_risk_adjusted_confidence",
                      pattern_name |-> name, confidence |-> confidence]
          /\ ret' = [status |-> "float",
                     value |-> calculate_risk_adjusted_confidence(confidence, name)]
    /\ UNCHANGED <<data, eng_in, eng_out, registry, pred, prev, bt>>

\* simple_bundesliga_predictor.py 340-361 over the recommendations of one match
SelectBestBet ==
    /\ call = NotCalled
    /\ \E bets \in BetLists :
          /\ call' = [status |-> "select_best_bet", bets |-> bets]
          /\ ret' = BestOfBets(Recommendations(bets))
    /\ UNCHANGED <<data, eng_in, eng_out, registry, pred, prev, bt>>

NextRisk == GetPatternRiskPenalty \/ CalculateRiskAdjustedConfidence \/ SelectBestBet

SpecRisk == InitRisk /\ [][NextRisk]_vars

(***************************************************************************)
(* C18: for every confidence value and pattern name the risk-adjusted      *)
(* confidence equals confidence - penalty(pattern_name) clamped to [0, 1]; *)
(* it never exceeds the raw confidence when that lies in [0, 1] and never  *)
(* leaves [0, 1].                                                          *)
(***************************************************************************)
C18_RiskAdjustedIsClampedDifference ==
    (call.status = "calculate_risk_adjusted_confidence") =>
        LET difference == call.confidence - get_pattern_risk_penalty(call.pattern_name)
        IN  /\ ret.value = IF difference < 0 THEN 0
                           ELSE IF difference > ONE THEN ONE ELSE difference
            /\ (call.confidence >= 0 /\ call.confidence <= ONE) => ret.value <= call.confidence
            /\ ret.value >= 0 /\ ret.value <= ONE

\* a confidence below the penalty: the difference is negative and the result 0
C18_Witness ==
    /\ call.status = "calculate_risk_adjusted_confidence"
    /\ call.confidence > 0
    /\ call.confidence < get_pattern_risk_penalty(call.pattern_name)
    /\ ret.value = 0

(***************************************************************************)
(* C19: the penalty of a pattern name is the table entry of that exact     *)
(* name if there is one; otherwise the penalty of the category whose       *)
(* substring the name contains (goals, corners, cards, match result); only *)
(* a name that matches neither an exact entry nor a category receives the  *)
(* default penalty.                                                        *)
(***************************************************************************)
C19_PenaltyByNameThenCategory ==
    (call.status = "get_pattern_risk_penalty") =>
        /\ call.pattern_name \in DOMAIN PATTERN_RISK_PENALTIES
              => ret.value = PATTERN_RISK_PENALTIES[call.pattern_name]
        /\ (call.pattern_name \notin DOMAIN PATTERN_RISK_PENALTIES
              /\ ret.value = DEFAULT_RISK_PENALTY)
              => ~MatchesCategory(call.pattern_name)

(***************************************************************************)
(* C20: when a goals-over-2.5 pattern and a home-corners-over-2.5 pattern  *)
(* both qualify with the same raw confidence 0.80, the selector chooses    *)
(* the corners pattern: its risk-adjusted confidence 0.80 - 0.02 = 0.78    *)
(* exceeds the 0.80 - 0.06 = 0.74 of the goals pattern.                    *)
(***************************************************************************)
GoalsAndCornersAt80 ==
    /\ call.status = "select_best_bet"
    /\ Len(call.bets) = 2
    /\ \E i, j \in 1..Len(call.bets) :
          /\ call.bets[i] = [name |-> "total_over_2_5_goals", confidence |-> Pct(80)]
          /\ call.bets[j] = [name |-> "home_over_2_5_corners", confidence |-> Pct(80)]
    /\ \A i \in 1..Len(ret.evals) : IsBet(ret.evals[i])

C20_CornersBeatGoalsAtEqualConfidence ==
    GoalsAndCornersAt80 =>
        /\ ret.status = "bet"
        /\ ret.pattern_name = "home_over_2_5_corners"
        /\ ret.risk_adjusted_confidence = Pct(78)
        /\ \A i \in 1..Len(ret.evals) :
              ret.evals[i].name = "total_over_2_5_goals"
                  => ret.evals[i].risk_adjusted_confidence = Pct(74)

\* the goals pattern comes first in the list and the corners pattern is chosen
C20_Witness ==
    /\ GoalsAndCornersAt80
    /\ call.bets[1].name = "total_over_2_5_goals"
    /\ ret.pattern_name = "home_over_2_5_corners"

(***************************************************************************)
(* patterns/registry.py called on its own: register_pattern and            *)
(* clear_patterns on the process-wide registry, which holds the example    *)
(* patterns once the module is imported.                                   *)
(***************************************************************************)
\* Pattern.__post_init__, lines 21-28 (label_fn is always a function here)
PostInitRaises(default_threshold, pattern_min_matches) ==
    ~(0 <= default_threshold /\ default_threshold <= ONE) \/ pattern_min_matches < 1

\* register_pattern, lines 99-124: build the Pattern, then register it
register_pattern(reg, name, default_threshold, pattern_min_matches) ==
    IF PostInitRaises(default_threshold, pattern_min_matches)
       \/ RegisterRaises(reg, Pat(name, default_threshold))
    THEN [status |-> "raise", error |-> "ValueError", registry |-> reg]
    ELSE [status |-> "ok", error |-> "", registry |-> Register(reg, Pat(name, default_threshold))]

NewNames == {"home_over_1_5_goals", "both_teams_to_score", "draw"}
NewThresholds == {0 - Pct(1), 0, ONE, ONE + Pct(1)}
NewMinMatches == {0, 1}

InitRegistry ==
    /\ registry = RegisterAll(<<>>, ExamplePatterns)
    /\ call = NotCalled /\ ret = NoValue /\ prev = NoValue
    /\ data = <<>> /\ pred = NoValue /\ bt = NoValue
    /\ eng_in = NoValue /\ eng_out = NoValue

\* prev keeps the registry the call found
RegisterPattern ==
    /\ \E name \in NewNames, default_threshold \in NewThresholds, pattern_min_matches \in NewMinMatches :
          \E r \in {register_pattern(registry, name, default_threshold, pattern_min_matches)} :
              /\ call' = [status |-> "register_pattern", name |-> name,
                          default_threshold |-> default_threshold,
                          min_matches |-> pattern_min_matches]
              /\ ret' = [status |-> r.status, error |-> r.error]
              /\ registry' = r.registry
              /\ prev' = registry
    /\ UNCHANGED <<data, eng_in, eng_out, pred, bt>>

ClearPatterns ==
    /\ registry' = clear_patterns
    /\ prev' = registry
    /\ call' = [status |-> "clear_patterns"]
    /\ ret' = NoValue
    /\ UNCHANGED <<data, eng_in, eng_out, pred, bt>>

NextRegistry == RegisterPattern \/ ClearPatterns

SpecRegistry == InitRegistry /\ [][NextRegistry]_vars

(***************************************************************************)
(* C21: registering a pattern fails with a configuration error whenever    *)
(* its name already exists in the catalog, its threshold is outside        *)
(* [0, 1], or its min_matches is below 1; in particular registering a name *)
(* a second time always fails.  A failed registration leaves the catalog   *)
(* as it was.                                                              *)
(***************************************************************************)
C21_RegisterFails ==
    (call.status = "register_pattern") =>
        ((\/ call.name \in NameSet(prev)
          \/ call.default_threshold < 0 \/ call.default_threshold > ONE
          \/ call.min_matches < 1)
            => (ret.status = "raise" /\ ret.error = "ValueError" /\ registry = prev))

\* a well-formed pattern whose name was registered by an earlier call
C21_Witness ==
    /\ call.status = "register_pattern"
    /\ call.name \in NameSet(prev) /\ call.name \notin NameSet(ExamplePatterns)
    /\ call.default_threshold >= 0 /\ call.default_threshold <= ONE
    /\ call.min_matches >= 1
    /\ ret.status = "raise" /\ registry = prev

\* the rows of the loaded frame dated before the match the loop last went
\* through, capped to the most recent hist_tail in the quick backtest
EarlierRows ==
    IF bt.script = "quick" THEN TailN(Before(data, bt.match["Date"]), hist_tail)
    ELSE Before(data, bt.match["Date"])

\* the loop obtained an answer from the predictor for that match
PredictionComputed ==
    /\ bt.status \in {"running", "aborted"} /\ bt.pos > 0
    /\ bt.script \in {"all_leagues", "quick"}
    /\ bt.step # "skipped"
    /\ ret.status \in {"bet", "no_bet", "list"}

(***************************************************************************)
(* C22: for each match M of the evaluation range the prediction is         *)
(* computed from all corpus entries dated strictly before M's date (apart  *)
(* from an optional cap to the most recent N): neither the harness nor the *)
(* as-of date it hands to the predictor excludes a strictly earlier entry. *)
(***************************************************************************)
C22_BacktestUsesAllEarlierRows ==
    PredictionComputed => Len(bt.history) >= Len(EarlierRows)

(***************************************************************************)
(* bankroll_manager.py.  Money is counted in thousandths of a currency     *)
(* unit (100.00 is 100000), odds in hundredths (1.30 is 130).  pred is the *)
(* BankrollManager, started without a state file.  A bet of bet_history    *)
(* keeps date, stake, odds, confidence, result ("pending" for None, "won", *)
(* "lost"), profit (0 while pending) and settled_at, the position of its   *)
(* settlement among the settlements (0 while pending).  prev keeps the     *)
(* manager as the last call found it.                                      *)
(***************************************************************************)
Money(units) == units * 1000
MaxPlaced == 3               \* bets a manager's bet_history may hold

\* lines 25-60
BankrollManager(initial_bankroll, max_daily_bets, max_consecutive_losses) ==
    [initial_bankroll |-> initial_bankroll, current_bankroll |-> initial_bankroll,
     max_stake_pct |-> Pct(2), stop_loss_pct |-> Pct(80),
     max_daily_bets |-> max_daily_bets,
     max_consecutive_losses |-> max_consecutive_losses,
     kelly_fraction |-> Pct(25),
     bet_history |-> <<>>, consecutive_losses |-> 0, daily_bets |-> <<>>]

\* round(x, 2) of the amount num / den: the nearest hundredth, a tie to the even one
RoundCents(num, den) ==
    LET cents == num \div (10 * den)
        rest == num - cents * 10 * den
    IN  IF 2 * rest > 10 * den \/ (2 * rest = 10 * den /\ cents % 2 = 1)
        THEN 10 * (cents + 1) ELSE 10 * cents

\* lines 85-131
calculate_kelly_stake(self, confidence, odds) ==
    IF confidence <= Pct(50) \/ odds <= 100 THEN 0
    ELSE LET b == odds - 100
             p == confidence \div 100
             q == 100 - p
             \* kelly * kelly_fraction * current_bankroll = kelly_num / kelly_den
             kelly_num == (b * p - 100 * q) * (self.kelly_fraction \div 100)
             max_num == self.max_stake_pct \div 100
             \* min(kelly_stake, max_stake), both over the denominator 100 * 100 * b
         IN  IF kelly_num <= max_num * 100 * b
             THEN RoundCents(Max2(0, kelly_num) * (self.current_bankroll \div 10), 1000 * b)
             ELSE RoundCents(max_num * self.current_bankroll, 100)

DailyCount(self, date) == IF date \in DOMAIN self.daily_bets THEN self.daily_bets[date] ELSE 0

\* the checks without the daily bet limit
CanPlaceBetNoDailyLimit(self, date) ==
    /\ ~(self.current_bankroll * ONE < self.initial_bankroll * self.stop_loss_pct)
    /\ ~(self.consecutive_losses >= self.max_consecutive_losses)
\* lines 133-160: the allowed flag
can_place_bet(self, date) ==
    /\ ~(self.current_bankroll * ONE < self.initial_bankroll * self.stop_loss_pct)
    /\ ~(self.consecutive_losses >= self.max_consecutive_losses)
    /\ ~(DailyCount(self, date) >= self.max_daily_bets)

NewBet(date, stake, odds, confidence) ==
    [date |-> date, stake |-> stake, odds |-> odds, confidence |-> confidence,
     result |-> "pending", profit |-> 0, settled_at |-> 0]

\* placing a bet that takes the stake out of the bankroll at once
PlaceBetDeductsStake(self, stake, confidence, odds, date) ==
    IF ~can_place_bet(self, date) THEN self
    ELSE [self EXCEPT
             !.current_bankroll = @ - stake,
             !.bet_history = Append(@, NewBet(date, stake, odds, confidence)),
             !.daily_bets = [d \in DOMAIN @ \cup {date} |-> IF d = date
                                THEN DailyCount(self, date) + 1 ELSE @[d]]]
\* lines 162-213: the manager afterwards
place_bet(self, stake, confidence, odds, date) ==
    IF ~can_place_bet(self, date) THEN self
    ELSE [self EXCEPT
             !.bet_history = Append(@, NewBet(date, stake, odds, confidence)),
             !.daily_bets = [d \in DOMAIN @ \cup {date} |-> IF d = date
                                THEN DailyCount(self, date) + 1 ELSE @[d]]]

\* self.bet_history[bet_index] with Python's negative indices: the position, or 0
\* where the subscript raises IndexError
ListIndex(len, bet_index) ==
    IF bet_index >= 0
    THEN (IF bet_index < len THEN bet_index + 1 ELSE 0)
    ELSE (IF len + bet_index >= 0 THEN len + bet_index + 1 ELSE 0)

Settlements(self) == Cardinality({i \in 1..Len(self.bet_history) : self.bet_history[i].result # "pending"})

\* settling without counting the loss streak
SettleBetKeepsStreak(self, bet_index, won) ==
    LET i == ListIndex(Len(self.bet_history), bet_index)
    IN  IF bet_index >= Len(self.bet_history) \/ i = 0 THEN self
        ELSE IF self.bet_history[i].result # "pending" THEN self
        ELSE LET bet == self.bet_history[i]
                 profit == IF won THEN (bet.stake * (bet.odds - 100)) \div 100 ELSE 0 - bet.stake
             IN  [self EXCEPT
                     !.current_bankroll = @ + profit,
                     !.bet_history[i] = [bet EXCEPT !.result = IF won THEN "won" ELSE "lost",
                                                    !.profit = profit,
                                                    !.settled_at = Settlements(self) + 1]]
\* lines 215-257: the manager afterwards
settle_bet(self, bet_index, won) ==
    LET i == ListIndex(Len(self.bet_history), bet_index)
    IN  IF bet_index >= Len(self.bet_history) \/ i = 0 THEN self
        ELSE IF self.bet_history[i].result # "pending" THEN self
        ELSE LET bet == self.bet_history[i]
                 profit == IF won THEN (bet.stake * (bet.odds - 100)) \div 100 ELSE 0 - bet.stake
             IN  [self EXCEPT
                     !.current_bankroll = @ + profit,
                     !.consecutive_losses = IF won THEN 0 ELSE @ + 1,
                     !.bet_history[i] = [bet EXCEPT !.result = IF won THEN "won" ELSE "lost",
                                                    !.profit = profit,
                                                    !.settled_at = Settlements(self) + 1]]

\* settle_bet leaves through IndexError: a negative index beyond the list
SettleRaises(self, bet_index) ==
    bet_index < Len(self.bet_history) /\ ListIndex(Len(self.bet_history), bet_index) = 0

ManagerConfigs == {[daily |-> 2, losses |-> 2]}
KellyInputs ==
    {[confidence |-> Pct(50), odds |-> 130], [confidence |-> Pct(52), odds |-> 200],
     [confidence |-> Pct(85), odds |-> 130], [confidence |-> Pct(85), odds |-> 100]}
BetConfidence == Pct(85)
BetOdds == 130
FlatStake == Money(5)
BetDates == {"2025-11-08", "2025-11-09"}
IsoBefore(d, e) == d = e \/ (d = "2025-11-08" /\ e = "2025-11-09")

InitBankroll ==
    /\ \E c \in ManagerConfigs : pred = BankrollManager(Money(100), c.daily, c.losses)
    /\ prev = pred
    /\ call = NotCalled /\ ret = NoValue
    /\ data = <<>> /\ registry = <<>> /\ bt = NoValue
    /\ eng_in = NoValue /\ eng_out = NoValue

CalculateKellyStake ==
    /\ \E in \in KellyInputs :
          /\ call' = [status |-> "calculate_kelly_stake", confidence |-> in.confidence,
                      odds |-> in.odds]
          /\ ret' = [status |-> "float",
                     value |-> calculate_kelly_stake(pred, in.confidence, in.odds)]
    /\ prev' = pred
    /\ UNCHANGED <<data, eng_in, eng_out, registry, pred, bt>>

\* the stake is the one calculate_kelly_stake returns for the bet, or a flat
\* amount; the date is today's, never earlier than the date of the last bet
PlaceBet ==
    /\ Len(pred.bet_history) < MaxPlaced
    /\ \E date \in BetDates,
          stake \in {calculate_kelly_stake(pred, BetConfidence, BetOdds), FlatStake} :
          /\ \A i \in 1..Len(pred.bet_history) : IsoBefore(pred.bet_history[i].date, date)
          /\ call' = [status |-> "place_bet", stake |-> stake, date |-> date]
          /\ ret' = [status |-> "bool", value |-> can_place_bet(pred, date)]
          /\ pred' = place_bet(pred, stake, BetConfidence, BetOdds, date)
    /\ prev' = pred
    /\ UNCHANGED <<data, eng_in, eng_out, registry, bt>>

\* the indices tried: every position, one past the end, the last bet counted
\* from the end and one before the first
SettleIndices(len) == (0..len) \cup {0 - 1, 0 - 1 - len}

SettleBet ==
    /\ \E bet_index \in SettleIndices(Len(pred.bet_history)), won \in BOOLEAN :
          /\ call' = [status |-> "settle_bet", bet_index |-> bet_index, won |-> won]
          /\ ret' = IF SettleRaises(pred, bet_index)
                    THEN [status |-> "raise", error |-> "IndexError"] ELSE NoValue
          /\ pred' = settle_bet(pred, bet_index, won)
    /\ prev' = pred
    /\ UNCHANGED <<data, eng_in, eng_out, registry, bt>>

NextBankroll == CalculateKellyStake \/ PlaceBet \/ SettleBet

SpecBankroll == InitBankroll /\ [][NextBankroll]_vars

\* the last call was a place_bet that recorded a bet
BetAccepted == Len(pred'.bet_history) > Len(pred.bet_history)
PlacedBet == pred'.bet_history[Len(pred'.bet_history)]

(***************************************************************************)
(* C23: max stake limit.  After any sequence of calculate_kelly_stake,     *)
(* place_bet and settle_bet calls no bet recorded in bet_history has a     *)
(* stake greater than max_stake_pct of the bankroll at the time it was     *)
(* placed.                                                                 *)
(***************************************************************************)
C23_MaxStakeLimit ==
    [][BetAccepted => PlacedBet.stake * ONE <= pred.max_stake_pct * pred.current_bankroll]_vars

\* the bets of bet_history placed for a date
BetsOn(self, date) == {i \in 1..Len(self.bet_history) : self.bet_history[i].date = date}

(***************************************************************************)
(* C24: daily bet limit.  After any sequence of place_bet and settle_bet   *)
(* calls on a manager started with empty state the number of bets accepted *)
(* for a single date never exceeds max_daily_bets, and a refused place_bet *)
(* leaves bet_history, daily_bets and the bankroll unchanged.              *)
(***************************************************************************)
C24_DailyBetLimit ==
    /\ \A date \in BetDates : Cardinality(BetsOn(pred, date)) <= pred.max_daily_bets
    /\ (call.status = "place_bet" /\ ~ret.value) =>
          /\ pred.bet_history = prev.bet_history
          /\ pred.daily_bets = prev.daily_bets
          /\ pred.current_bankroll = prev.current_bankroll

\* a place_bet refused by the daily limit alone, bets of another date allowed
C24_Witness ==
    /\ call.status = "place_bet" /\ ~ret.value
    /\ Cardinality(BetsOn(pred, call.date)) = pred.max_daily_bets
    /\ pred.consecutive_losses < pred.max_consecutive_losses
    /\ pred.current_bankroll >= pred.initial_bankroll
    /\ pred = prev

\* the settle_bet call named a settled bet or no bet at all
SettledOrNoBet(self, bet_index) ==
    \/ ListIndex(Len(self.bet_history), bet_index) = 0
    \/ self.bet_history[ListIndex(Len(self.bet_history), bet_index)].result # "pending"

\* the bets settled as losses after the last bet settled as a win, by settled_at
LastWinAt(self) == Cardinality({t \in 1..Len(self.bet_history) : \E i \in 1..Len(self.bet_history) : self.bet_history[i].result = "won" /\ self.bet_history[i].settled_at >= t})
LossesInARow(self) == Cardinality({i \in 1..Len(self.bet_history) : self.bet_history[i].result = "lost" /\ self.bet_history[i].settled_at > LastWinAt(self)})
WinSettled ==
    /\ call.status = "settle_bet" /\ call.won
    /\ ~SettledOrNoBet(prev, call.bet_index)

(***************************************************************************)
(* C25: consecutive-loss stop.  Once max_consecutive_losses bets in a row  *)
(* have been settled as losses, place_bet accepts no further bet on any    *)
(* date until some bet is settled as a win, which resets the loss streak   *)
(* to 0.                                                                   *)
(***************************************************************************)
C25_ConsecutiveLossStop ==
    /\ (call.status = "place_bet" /\ LossesInARow(prev) >= prev.max_consecutive_losses)
          => (~ret.value /\ pred.bet_history = prev.bet_history)
    /\ WinSettled => (pred.consecutive_losses = 0 /\ LossesInARow(pred) = 0)

\* a place_bet refused by the loss streak alone, on a date with room left
C25_Witness ==
    /\ call.status = "place_bet" /\ ~ret.value
    /\ LossesInARow(pred) = pred.max_consecutive_losses
    /\ Cardinality(BetsOn(pred, call.date)) < pred.max_daily_bets
    /\ pred.current_bankroll * ONE >= pred.initial_bankroll * pred.stop_loss_pct
    /\ pred = prev

\* lines 259-286: total_profit of get_status over the first n bets
RECURSIVE TotalProfit(_, _)
TotalProfit(self, n) ==
    IF n = 0 THEN 0
    ELSE TotalProfit(self, n - 1)
         + (IF self.bet_history[n].result # "pending" THEN self.bet_history[n].profit ELSE 0)

(***************************************************************************)
(* C26: after any sequence of place_bet and settle_bet calls on a manager  *)
(* started with empty state, current_bankroll equals initial_bankroll plus *)
(* the sum of the recorded profits of the settled bets; each bet affects   *)
(* the bankroll and the loss streak at most once: settling a settled bet   *)
(* or an index that refers to no bet changes nothing.                      *)
(***************************************************************************)
C26_BankrollIsInitialPlusProfits ==
    /\ pred.current_bankroll = pred.initial_bankroll + TotalProfit(pred, Len(pred.bet_history))
    /\ pred.consecutive_losses = LossesInARow(pred)
    /\ (call.status = "settle_bet" /\ SettledOrNoBet(prev, call.bet_index)) => pred = prev

\* a second settle_bet of a settled bet, with a won and a lost bet recorded
C26_Witness ==
    /\ call.status = "settle_bet"
    /\ ListIndex(Len(prev.bet_history), call.bet_index) # 0
    /\ prev.bet_history[ListIndex(Len(prev.bet_history), call.bet_index)].result # "pending"
    /\ \E i, j \in 1..Len(pred.bet_history) :
          pred.bet_history[i].result = "won" /\ pred.bet_history[j].result = "lost"
    /\ pred.current_bankroll # pred.initial_bankroll
    /\ pred = prev

(***************************************************************************)
(* eval/enhanced_backtest.py: _run_detailed_backtest.  test_matches and    *)
(* config are the function's arguments.  The probabilities the trained     *)
(* models answer are not computed here: each pass of the loop draws the    *)
(* pattern of the bet with the highest expected value, or none.  The       *)
(* per-pattern counters pattern_stats[name]['bets'] and ['wins'] are kept  *)
(* in by_pattern as total and correct.                                     *)
(***************************************************************************)
MaxRun == 3                  \* matches handed to _run_detailed_backtest
EnhancedDates == {991, 992}
EnhancedPatterns == {"home_over_1_5_goals", "total_over_2_5_goals"}
EnhancedRows == {RowOf(kind, d) : kind \in EngineRowKinds, d \in EnhancedDates}
EnhancedLimits == {1, 2}     \* config['max_bets_per_day']
NoDate == 0                  \* current_date = None
NoBestBets == ""             \* best_bets = []

\* lines 216-238: the tracking variables before the loop
InitEnhanced ==
    /\ \E test_matches \in [1..MaxRun -> EnhancedRows], max_bets_per_day \in EnhancedLimits :
          bt = [status |-> "running", script |-> "enhanced", test_matches |-> test_matches,
                pos |-> 0, max_bets_per_day |-> max_bets_per_day, current_date |-> NoDate,
                daily_bets |-> 0, bets_placed |-> <<>>, by_pattern |-> <<>>]
    /\ data = <<>>
    /\ registry = ExamplePatterns
    /\ pred = NoValue
    /\ call = NotCalled
    /\ ret = NoResult /\ prev = NoResult
    /\ eng_in = NoValue /\ eng_out = NoValue

\* lines 240-376: the tracking variables after the pass for a match.  An
\* exception of the pattern's label_fn leaves the function
EnhancedAfter(b, match, best) ==
    LET match_date == match["Date"]
        daily_bets == IF b.current_date # match_date THEN 0 ELSE b.daily_bets
        reset == [b EXCEPT !.pos = b.pos + 1, !.current_date = match_date,
                           !.daily_bets = daily_bets]
    IN  IF daily_bets >= b.max_bets_per_day \/ best = NoBestBets THEN reset
        ELSE IF Raises(best, match)
        THEN [reset EXCEPT !.daily_bets = daily_bets + 1, !.status = "aborted"]
        ELSE CountByPattern(
                 [reset EXCEPT !.daily_bets = daily_bets + 1,
                               !.bets_placed = Append(@, [date |-> match_date, pattern |-> best,
                                                          result |-> Label(best, match)])],
                 best, Label(best, match))

\* lines 240-376: one pass of the loop over test_matches
EnhancedBacktestStep ==
    /\ bt.status = "running" /\ bt.script = "enhanced"
    /\ bt.pos < Len(bt.test_matches)
    /\ \E best \in EnhancedPatterns \cup {NoBestBets} :
          bt' = EnhancedAfter(bt, bt.test_matches[bt.pos + 1], best)
    /\ UNCHANGED <<data, eng_in, eng_out, registry, pred, call, ret, prev>>

SpecEnhanced == InitEnhanced /\ [][EnhancedBacktestStep]_vars

\* the walk-forward scripts and the enhanced backtest together
InitHarness == InitBacktest \/ InitEnhanced
NextHarness == NextBacktest \/ EnhancedBacktestStep
SpecHarness == InitHarness /\ [][NextHarness]_vars

\* lines 384-385: the final metrics
total_bets(b) == Len(b.bets_placed)
winning_bets(b) == Cardinality({i \in 1..Len(b.bets_placed) : b.bets_placed[i].result})

\* the counts a run reports
BetCount(b) == IF b.script = "enhanced" THEN total_bets(b) ELSE b.total
WinCount(b) == IF b.script = "enhanced" THEN winning_bets(b) ELSE b.correct
LossCount(b) ==
    IF b.script = "enhanced"
    THEN Cardinality({i \in 1..Len(b.bets_placed) : ~b.bets_placed[i].result})
    ELSE b.losses
PatternBetCount(b) ==
    SumFn([n \in DOMAIN b.by_pattern |-> b.by_pattern[n].total], DOMAIN b.by_pattern)
PatternWinCount(b) ==
    SumFn([n \in DOMAIN b.by_pattern |-> b.by_pattern[n].correct], DOMAIN b.by_pattern)

\* the loop is through and the run reports its counts
RunEnded == bt.status \in {"running", "returned"} /\ bt.pos = Len(bt.test_matches)

(***************************************************************************)
(* C27: at the end of any backtest run the aggregate bet count equals the  *)
(* number of wins plus the number of losses and equals the sum of the      *)
(* per-pattern bet counts (where the run keeps per-pattern counts), and    *)
(* the win count never exceeds the bet count.                              *)
(***************************************************************************)
C27_BacktestCountsAgree ==
    RunEnded =>
        /\ BetCount(bt) = WinCount(bt) + LossCount(bt)
        /\ bt.script \in {"all_leagues", "enhanced"} =>
              /\ BetCount(bt) = PatternBetCount(bt)
              /\ WinCount(bt) = PatternWinCount(bt)
        /\ WinCount(bt) <= BetCount(bt)

\* a multi-league run that ends with a won and a lost bet counted
C27_Witness ==
    /\ RunEnded /\ bt.script = "all_leagues"
    /\ bt.correct > 0 /\ bt.losses > 0
    /\ PatternBetCount(bt) = bt.correct + bt.losses

\* the bets of the enhanced backtest placed on a calendar date
BetsPlacedOn(b, date) == {i \in 1..Len(b.bets_placed) : b.bets_placed[i].date = date}

(***************************************************************************)
(* C30: in the enhanced backtest, for any sequence of test matches in any  *)
(* order, the number of bets placed on any single calendar date never      *)
(* exceeds max_bets_per_day.                                               *)
(***************************************************************************)
C30_EnhancedDailyLimit ==
    bt.script = "enhanced" =>
        \A date \in EnhancedDates : Cardinality(BetsPlacedOn(bt, date)) <= bt.max_bets_per_day

(***************************************************************************)
(* C28: after backtest_league has processed any test match, including one  *)
(* whose prediction call raises an exception, predictor.data is again the  *)
(* full original dataset, so that the history of every later match is      *)
(* taken from the same stored data.                                        *)
(***************************************************************************)
C28_PredictorDataRestored ==
    (bt.status = "running" /\ bt.script = "all_leagues" /\ bt.pos > 0) => pred.data = data

\* the call was answered by the Romanian or the Serie A selector
RomanianOrSerieA == \E l \in {"romanian", "serie_a"} : pred[l].status = "built"

\* the candidates of a call that share the maximal risk-adjusted confidence
MaximalCandidates(r) ==
    {i \in Candidates(r) :
        \A j \in Candidates(r) :
            r.evals[j].risk_adjusted_confidence <= r.evals[i].risk_adjusted_confidence}

\* positions of a pattern name in the registration order
RegisteredAt(reg, name) == {k \in 1..Len(reg) : list_patterns(reg)[k] = name}

(***************************************************************************)
(* C29: when two or more candidates share exactly the same maximal         *)
(* risk-adjusted confidence, the Romanian and Serie A selectors return the *)
(* one that comes first in the catalog's registration order.               *)
(***************************************************************************)
C29_TieGoesToFirstRegistered ==
    (RomanianOrSerieA /\ ret.status = "bet") =>
        \E i \in MaximalCandidates(ret) :
            /\ ret.pattern_name = ret.evals[i].name
            /\ \A j \in MaximalCandidates(ret) \ {i} :
                  \A k \in RegisteredAt(registry, ret.evals[i].name),
                     m \in RegisteredAt(registry, ret.evals[j].name) : k < m

\* a bet returned although a pattern registered later ties with it
C29_Witness ==
    /\ RomanianOrSerieA /\ ret.status = "bet"
    /\ Cardinality(MaximalCandidates(ret)) >= 2
    /\ \E j \in MaximalCandidates(ret) :
          /\ ret.evals[j].name # ret.pattern_name
          /\ RegisteredAt(registry, ret.evals[j].name) # {}
          /\ RegisteredAt(registry, ret.pattern_name) # {}

=============================================================================
